---- MODULE Spec2Model ----
(***************************************************************************)
(* A model of the map generator of NeonDrive (src/lib/map): settlement     *)
(* placement (towns.ts), the road network (roads.ts), the terrain pipeline *)
(* (generator.ts, terrain.ts) and the noisy edges (noisyEdges.ts).         *)
(*                                                                         *)
(* Conventions.  Arrays are sequences, so positions are 1-based: a Center, *)
(* Corner or Edge is referred to by its position in mapData.centers,       *)
(* .corners, .edges, and 0 stands for null.  Real numbers are fixed point: *)
(* elevations and moistures are in thousandths (0.6 is 600), fractions in  *)
(* percent (targetPercent 0.3 is 30).  A draw from the seeded Random is a  *)
(* nondeterministic choice over the values the draw can return.            *)
(***************************************************************************)
EXTENDS Integers, Sequences, FiniteSets, TLC

VARIABLES
    mapData,          \* the finished map the later stages read
    config,           \* TownGenerator.config
    landCenters,      \* TownGenerator.landCenters
    shorelineCenters, \* TownGenerator.shorelineCenters
    riverCenters,     \* TownGenerator.riverCenters
    towns,            \* generate(): towns
    placedCenters,    \* generate(): placedCenters
    stats,            \* generate(): stats
    tpc,              \* generate(): position ("pass1", "pass2", "done")
    ruleIdx,          \* generate(): first pass, position in sortedRules
    placed,           \* generate(): first pass, placed
    mstEdges,         \* generateRoads(): mstEdges
    extraEdges,       \* generateRoads(): extraEdges
    roads,            \* generateRoads(): roads
    adjacency,        \* generateRoads(): adjacency
    rpc,              \* generateRoads(): position ("start", "paths", "done")
    edgePos,          \* generateRoads(): position in allEdges
    mconfig,          \* generateMap(): config
    graph,            \* generateMap(): graph
    islandShape,      \* assignWater(): the Corners whose islandShape > 0.3
    mpc,              \* generateMap(): position
    paths,            \* buildNoisyEdges(): paths
    npc,              \* buildNoisyEdges(): position ("loop", "done")
    edgeIdx,          \* buildNoisyEdges(): position in mapData.edges
    usedNames,        \* TownNameGenerator.usedNames
    names,            \* generateTownNames(): the names set so far, by town
    name,             \* generateName(): name
    attempts,         \* generateName(): attempts
    gpc               \* generateName(): position ("try", "finish")

townVars == <<config, landCenters, shorelineCenters, riverCenters, towns,
              placedCenters, stats, tpc, ruleIdx, placed>>

roadVars == <<mstEdges, extraEdges, roads, adjacency, rpc, edgePos>>

genVars == <<mconfig, graph, islandShape, mpc>>

noisyVars == <<paths, npc, edgeIdx>>

nameVars == <<usedNames, names, name, attempts, gpc>>

vars == <<mapData, townVars, roadVars, genVars, noisyVars, nameVars>>

\* No TownNameGenerator has been made.
NamesIdle ==
    /\ usedNames = {}
    /\ names = <<>>
    /\ name = ""
    /\ attempts = 0
    /\ gpc = "idle"

(***************************************************************************)
(* Bounds of the model.                                                    *)
(***************************************************************************)
MaxTotalTowns == 3
MaxMinCount == 2
MaxMaxCount == 1
MaxRoadTowns == 3
MaxRivers == 2
MaxNetworkTowns == 4
MaxNoisyEdges == 3
MaxStageTowns == 3

(***************************************************************************)
(* Generic helpers.                                                        *)
(***************************************************************************)
SeqToSet(s) == {s[i] : i \in DOMAIN s}

RECURSIVE SetToSeq(_)
SetToSeq(S) ==
    IF S = {} THEN <<>>
    ELSE LET m == CHOOSE x \in S : \A y \in S : x <= y
         IN <<m>> \o SetToSeq(S \ {m})

\* types.ts: DEFAULT_CONFIG (lakeFactor in percent; islandFactor only enters
\* the island shape, which is drawn, and is left out).
DEFAULT_CONFIG ==
    [width |-> 800, height |-> 600, numPoints |-> 2000, seed |-> 12345,
     lakeFactor |-> 30, riverCount |-> 50]

(***************************************************************************)
(* Finished maps.  A map is a 4 x 2 grid of Centers; Center i sits at      *)
(* column (i-1) % 4, row (i-1) \div 4, its neighbors are the grid          *)
(* neighbours, and there is one Edge per pair of neighbouring Centers.     *)
(* The flags follow assignWater: coast = not water and some neighbor is    *)
(* ocean.                                                                  *)
(***************************************************************************)
Ocean == [ocean |-> TRUE, water |-> TRUE, elevation |-> 0]
Lake == [ocean |-> FALSE, water |-> TRUE, elevation |-> 200]
Land(e) == [ocean |-> FALSE, water |-> FALSE, elevation |-> e]

GridPoint(i, spacing) ==
    <<100 + spacing * ((i - 1) % 4), 100 + spacing * ((i - 1) \div 4)>>

GridNeighbors(i) ==
    LET col == (i - 1) % 4
        row == (i - 1) \div 4
    IN  SetToSeq({j \in 1..8 :
            LET c == (j - 1) % 4
                r == (j - 1) \div 4
            IN  \/ r = row /\ (c = col + 1 \/ c = col - 1)
                \/ c = col /\ r # row})

GridEdges(riverPairs) ==
    LET pairs == {p \in (1..8) \X (1..8) :
                      p[1] < p[2] /\ p[2] \in SeqToSet(GridNeighbors(p[1]))}
        codes == SetToSeq({10 * p[1] + p[2] : p \in pairs})
    IN  [k \in DOMAIN codes |->
            LET a == codes[k] \div 10
                b == codes[k] % 10
            IN  [index |-> k, d0 |-> a, d1 |-> b,
                 river |-> IF <<a, b>> \in riverPairs THEN 1 ELSE 0]]

GridMap(kinds, spacing, riverPairs) ==
    [centers |->
        [i \in 1..8 |->
            [index |-> i,
             point |-> GridPoint(i, spacing),
             ocean |-> kinds[i].ocean,
             water |-> kinds[i].water,
             coast |-> /\ ~kinds[i].water
                       /\ \E j \in SeqToSet(GridNeighbors(i)) : kinds[j].ocean,
             elevation |-> kinds[i].elevation,
             neighbors |-> GridNeighbors(i)]],
     edges |-> GridEdges(riverPairs),
     config |-> DEFAULT_CONFIG]

\* Two Regions in every category: shoreline {2,5}, river {3,7}, both
\* elevation bands {3,4,7,8}, inland {4,6,8}.
KindsA == <<Ocean, Land(50), Land(600), Land(600), Land(50), Land(200), Land(600), Land(600)>>
\* No ocean (so no shoreline), a lake, a river along 1-5.
KindsB == <<Land(450), Land(800), Lake, Land(100), Land(450), Land(800), Land(700), Land(350)>>
\* Two islands separated by an ocean column.
KindsC == <<Land(300), Ocean, Land(500), Land(900), Land(400), Ocean, Land(600), Land(200)>>

TownMaps ==
    { GridMap(KindsA, 50, {<<3, 7>>}),
      GridMap(KindsA, 30, {<<3, 7>>}),
      GridMap(KindsB, 30, {<<1, 5>>}),
      GridMap(KindsC, 30, {<<4, 8>>}) }

(***************************************************************************)
(* Town configurations.                                                    *)
(***************************************************************************)
Rule(type, targetPercent, minCount, maxCount, elevationMin, elevationMax, priority) ==
    [type |-> type, targetPercent |-> targetPercent, minCount |-> minCount,
     maxCount |-> maxCount, elevationMin |-> elevationMin,
     elevationMax |-> elevationMax, priority |-> priority]

DEFAULT_TOWN_CONFIG ==
    [totalTowns |-> 15,
     minDistance |-> 40,
     rules |-> << Rule("shoreline", 30, 2, 0, 0, 1000, 10),
                  Rule("river", 25, 2, 0, 0, 1000, 8),
                  Rule("elevation", 15, 1, 3, 600, 1000, 6),
                  Rule("elevation", 20, 1, 0, 300, 600, 4),
                  Rule("inland", 10, 0, 0, 0, 1000, 2) >>]

\* A rule is well formed when its maximum, if any, is not below its minimum.
Counts ==
    {mm \in (0..MaxMinCount) \X (0..MaxMaxCount) : mm[2] = 0 \/ mm[1] <= mm[2]}

CustomRuleSets ==
    { << Rule(t1, 50, mm1[1], mm1[2], 0, 1000, 10),
         Rule(t2, 25, mm2[1], mm2[2], 300, 1000, 4) >> :
        t1 \in {"shoreline", "river"}, t2 \in {"elevation", "inland"},
        mm1 \in Counts, mm2 \in Counts }

TownConfigs ==
    {DEFAULT_TOWN_CONFIG}
    \cup { [totalTowns |-> n, minDistance |-> d, rules |-> rs] :
             n \in 1..MaxTotalTowns, d \in {-40, 0, 40},
             rs \in CustomRuleSets \cup {DEFAULT_TOWN_CONFIG.rules} }

(***************************************************************************)
(* TownGenerator (towns.ts).                                               *)
(***************************************************************************)
\* cacheValidLocations: the three cached arrays, for a map md.
LandCentersOf(md) ==
    SelectSeq([i \in DOMAIN md.centers |-> i],
           LAMBDA c : ~md.centers[c].water /\ ~md.centers[c].ocean)

ShorelineCentersOf(md) ==
    SelectSeq(LandCentersOf(md), LAMBDA c : md.centers[c].coast)

RECURSIVE RiverScan(_, _, _)
RiverScan(md, e, acc) ==
    IF e > Len(md.edges) THEN acc
    ELSE LET edge == md.edges[e]
             add0 == IF edge.river > 0 /\ edge.d0 # 0 /\ ~md.centers[edge.d0].water
                        /\ edge.d0 \notin SeqToSet(acc)
                     THEN Append(acc, edge.d0) ELSE acc
             add1 == IF edge.river > 0 /\ edge.d1 # 0 /\ ~md.centers[edge.d1].water
                        /\ edge.d1 \notin SeqToSet(add0)
                     THEN Append(add0, edge.d1) ELSE add0
         IN  RiverScan(md, e + 1, add1)

RiverCentersOf(md) == RiverScan(md, 1, <<>>)

\* generate(): [...rules].sort((a, b) => b.priority - a.priority), a stable sort.
RECURSIVE InsertByPriority(_, _)
InsertByPriority(sorted, rule) ==
    IF sorted = <<>> THEN <<rule>>
    ELSE IF Head(sorted).priority >= rule.priority
         THEN <<Head(sorted)>> \o InsertByPriority(Tail(sorted), rule)
         ELSE <<rule>> \o sorted

RECURSIVE SortByPriority(_)
SortByPriority(rules) ==
    IF rules = <<>> THEN <<>>
    ELSE InsertByPriority(SortByPriority(SubSeq(rules, 1, Len(rules) - 1)),
                          rules[Len(rules)])

sortedRules == SortByPriority(config.rules)

DistSq(p, q) == (p[1] - q[1]) * (p[1] - q[1]) + (p[2] - q[2]) * (p[2] - q[2])

\* Math.sqrt(dx*dx + dy*dy) < d, on integers: a distance is never below d <= 0.
DistLess(p, q, d) == d > 0 /\ DistSq(p, q) < d * d

isValidPlacement_NoDistance(center, placedSet) == center \notin placedSet

isValidPlacement_NoPlacedCheck(center, placedSet) ==
    \A p \in placedSet :
        ~DistLess(mapData.centers[center].point, mapData.centers[p].point,
                  config.minDistance)

isValidPlacement(center, placedSet) ==
    /\ center \notin placedSet
    /\ \A p \in placedSet :
          ~DistLess(mapData.centers[center].point, mapData.centers[p].point,
                    config.minDistance)

getCandidatesForRule(rule) ==
    CASE rule.type = "shoreline" -> shorelineCenters
      [] rule.type = "river" ->
            SelectSeq(riverCenters, LAMBDA c : ~mapData.centers[c].coast)
      [] rule.type = "elevation" ->
            SelectSeq(landCenters,
                   LAMBDA c : /\ mapData.centers[c].elevation >= rule.elevationMin
                              /\ mapData.centers[c].elevation <= rule.elevationMax
                              /\ ~mapData.centers[c].coast)
      [] rule.type = "inland" ->
            SelectSeq(landCenters,
                   LAMBDA c : /\ ~mapData.centers[c].coast
                              /\ c \notin SeqToSet(riverCenters))
      [] OTHER -> landCenters

\* findValidCenter: the valid candidates; the code shuffles them and returns
\* the first, so any of them can be returned, and null when there is none.
ValidCenters(rule, placedSet) ==
    {c \in SeqToSet(getCandidatesForRule(rule)) : isValidPlacement(c, placedSet)}

CountFor(currentTowns, rule) ==
    Cardinality({i \in DOMAIN currentTowns : currentTowns[i].rule = rule})

AtMax(currentTowns, rule) ==
    rule.maxCount > 0 /\ CountFor(currentTowns, rule) >= rule.maxCount

Deficit(currentTowns, rule) ==
    (rule.targetPercent * config.totalTowns) \div 100 - CountFor(currentTowns, rule)

RECURSIVE BestScan_LastTie(_, _, _, _)
BestScan_LastTie(currentTowns, rules, i, best) ==
    IF i > Len(rules) THEN best
    ELSE IF AtMax(currentTowns, rules[i])
         THEN BestScan_LastTie(currentTowns, rules, i + 1, best)
         ELSE LET deficit == Deficit(currentTowns, rules[i])
              IN  IF best.rule = 0 \/ deficit >= best.deficit
                  THEN BestScan_LastTie(currentTowns, rules, i + 1,
                                        [rule |-> i, deficit |-> deficit])
                  ELSE BestScan_LastTie(currentTowns, rules, i + 1, best)

\* The loop of selectRuleByTarget over rules[i..]: best is [rule |-> 0] while
\* bestDeficit is -Infinity, else the best rule's position and its deficit.
RECURSIVE BestScan(_, _, _, _)
BestScan(currentTowns, rules, i, best) ==
    IF i > Len(rules) THEN best
    ELSE IF AtMax(currentTowns, rules[i])
         THEN BestScan(currentTowns, rules, i + 1, best)
         ELSE LET deficit == Deficit(currentTowns, rules[i])
              IN  IF best.rule = 0 \/ deficit > best.deficit
                  THEN BestScan(currentTowns, rules, i + 1,
                                [rule |-> i, deficit |-> deficit])
                  ELSE BestScan(currentTowns, rules, i + 1, best)

BestRule(currentTowns, rules) ==
    BestScan(currentTowns, rules, 1, [rule |-> 0, deficit |-> 0])

availableRules(currentTowns, rules) ==
    {i \in DOMAIN rules :
        rules[i].maxCount = 0 \/ CountFor(currentTowns, rules[i]) < rules[i].maxCount}

\* The positions in rules that selectRuleByTarget can return; the empty set
\* is the return of null.  random.int(0, n - 1) returns any position.
selectRuleByTarget(currentTowns, rules) ==
    LET best == BestRule(currentTowns, rules)
    IN  IF best.rule = 0 \/ best.deficit <= 0
        THEN availableRules(currentTowns, rules)
        ELSE {best.rule}

\* The first rule in priority order with a valid location; 0 is null.
RECURSIVE FallbackScan(_, _, _)
FallbackScan(rules, placedSet, i) ==
    IF i > Len(rules) THEN 0
    ELSE IF ValidCenters(rules[i], placedSet) # {} THEN i
    ELSE FallbackScan(rules, placedSet, i + 1)

findFallbackRule_FirstOnly(rules, placedSet) ==
    IF rules # <<>> /\ ValidCenters(rules[1], placedSet) # {} THEN 1 ELSE 0

findFallbackRule(rules, placedSet) == FallbackScan(rules, placedSet, 1)

\* createTown without the size roll and the generated name, which no step of
\* generate() reads.
createTown(id, center, rule) ==
    [id |-> id, center |-> center, type |-> rule.type,
     elevation |-> mapData.centers[center].elevation, rule |-> rule,
     x |-> mapData.centers[center].point[1],
     y |-> mapData.centers[center].point[2]]

ByTypeInc(byType, type) == [byType EXCEPT ![type] = @ + 1]

\* towns.push(town); placedCenters.add(center); stats.byType[type]++
PlaceTown(center, rule) ==
    /\ towns' = Append(towns, createTown(Len(towns), center, rule))
    /\ placedCenters' = placedCenters \cup {center}
    /\ stats' = [stats EXCEPT !.byType = ByTypeInc(@, rule.type)]

TownTypes == {"shoreline", "river", "elevation", "inland"}

InitTowns ==
    /\ mapData \in TownMaps
    /\ config \in TownConfigs
    /\ landCenters = LandCentersOf(mapData)
    /\ shorelineCenters = ShorelineCentersOf(mapData)
    /\ riverCenters = RiverCentersOf(mapData)
    /\ towns = <<>>
    /\ placedCenters = {}
    /\ stats = [total |-> 0, byType |-> [t \in TownTypes |-> 0],
                rulesFullfilled |-> TRUE]
    /\ tpc = "pass1"
    /\ ruleIdx = 1
    /\ placed = 0
    /\ mstEdges = <<>>
    /\ extraEdges = <<>>
    /\ roads = <<>>
    /\ adjacency = <<>>
    /\ rpc = "idle"
    /\ edgePos = 0
    /\ paths = <<>>
    /\ npc = "idle"
    /\ edgeIdx = 0
    /\ NamesIdle
    /\ mconfig = DEFAULT_CONFIG
    /\ graph = [centers |-> mapData.centers, corners |-> <<>>, edges |-> mapData.edges]
    /\ islandShape = {}
    /\ mpc = "done"

\* getCandidatesForRule: the array it returns is one of the cached arrays
\* itself or a new one made by filter.
CandidatesArray(rule) ==
    CASE rule.type = "shoreline" -> "shorelineCenters"
      [] rule.type \in {"river", "elevation", "inland"} -> "new"
      [] OTHER -> "landCenters"

ValidArray_Alias(candidates) == candidates

\* findValidCenter: valid = candidates.filter(...), which is a new array
\* whatever array candidates is.
ValidArray(candidates) == "new"

\* The orders random.shuffle can leave an array in.
RECURSIVE Orders(_)
Orders(array) ==
    IF array = <<>> THEN {<<>>}
    ELSE UNION {{<<array[i]>> \o rest :
                    rest \in Orders(SubSeq(array, 1, i - 1)
                                      \o SubSeq(array, i + 1, Len(array)))} :
                i \in DOMAIN array}

\* findValidCenter, random.shuffle(valid), as the cached array called name
\* sees it: shuffled when valid is that array, else left alone.
shuffle(field, cached, rule) ==
    IF ValidArray(CandidatesArray(rule)) = field THEN Orders(cached) ELSE {cached}

\* findValidCenter for rule when it returns a Center.
ShuffleValid(rule) ==
    /\ landCenters' \in shuffle("landCenters", landCenters, rule)
    /\ shorelineCenters' \in shuffle("shorelineCenters", shorelineCenters, rule)
    /\ riverCenters' \in shuffle("riverCenters", riverCenters, rule)

cachedVars == <<landCenters, shorelineCenters, riverCenters>>

frameTowns == UNCHANGED <<mapData, config, roadVars, genVars, noisyVars, nameVars>>

Pass1Looping ==
    /\ tpc = "pass1"
    /\ ruleIdx <= Len(sortedRules)
    /\ placed < sortedRules[ruleIdx].minCount
    /\ Len(towns) < config.totalTowns

\* First pass, one iteration of the while loop that places a town.
Pass1Place ==
    /\ Pass1Looping
    /\ \E center \in ValidCenters(sortedRules[ruleIdx], placedCenters) :
          PlaceTown(center, sortedRules[ruleIdx])
    /\ ShuffleValid(sortedRules[ruleIdx])
    /\ placed' = placed + 1
    /\ UNCHANGED <<tpc, ruleIdx>>
    /\ frameTowns

Pass1Exhausted_NoFlag ==
    /\ Pass1Looping
    /\ ValidCenters(sortedRules[ruleIdx], placedCenters) = {}
    /\ ruleIdx' = ruleIdx + 1
    /\ placed' = 0
    /\ UNCHANGED <<towns, placedCenters, stats, tpc>>
    /\ UNCHANGED cachedVars
    /\ frameTowns

\* First pass, findValidCenter returns null: rulesFullfilled = false; break.
Pass1Exhausted ==
    /\ Pass1Looping
    /\ ValidCenters(sortedRules[ruleIdx], placedCenters) = {}
    /\ stats' = [stats EXCEPT !.rulesFullfilled = FALSE]
    /\ ruleIdx' = ruleIdx + 1
    /\ placed' = 0
    /\ UNCHANGED <<towns, placedCenters, tpc>>
    /\ UNCHANGED cachedVars
    /\ frameTowns

\* First pass, the while condition is false: on to the next rule.
Pass1NextRule ==
    /\ tpc = "pass1"
    /\ ruleIdx <= Len(sortedRules)
    /\ ~(placed < sortedRules[ruleIdx].minCount /\ Len(towns) < config.totalTowns)
    /\ ruleIdx' = ruleIdx + 1
    /\ placed' = 0
    /\ UNCHANGED <<towns, placedCenters, stats, tpc>>
    /\ UNCHANGED cachedVars
    /\ frameTowns

\* The for loop of the first pass is over.
Pass1End ==
    /\ tpc = "pass1"
    /\ ruleIdx > Len(sortedRules)
    /\ tpc' = "pass2"
    /\ UNCHANGED <<towns, placedCenters, stats, ruleIdx, placed>>
    /\ UNCHANGED cachedVars
    /\ frameTowns

\* Second pass, the selected rule has a valid center.
Pass2Place ==
    /\ tpc = "pass2"
    /\ Len(towns) < config.totalTowns
    /\ \E r \in selectRuleByTarget(towns, sortedRules) :
          \E center \in ValidCenters(sortedRules[r], placedCenters) :
              /\ PlaceTown(center, sortedRules[r])
              /\ ShuffleValid(sortedRules[r])
    /\ UNCHANGED <<tpc, ruleIdx, placed>>
    /\ frameTowns

\* Second pass, the selected rule has no valid center and a fallback rule has.
Pass2Fallback ==
    /\ tpc = "pass2"
    /\ Len(towns) < config.totalTowns
    /\ \E r \in selectRuleByTarget(towns, sortedRules) :
          /\ ValidCenters(sortedRules[r], placedCenters) = {}
          /\ LET fallbackRule == findFallbackRule(sortedRules, placedCenters)
             IN  /\ fallbackRule # 0
                 /\ \E fallbackCenter \in
                        ValidCenters(sortedRules[fallbackRule], placedCenters) :
                       /\ PlaceTown(fallbackCenter, sortedRules[fallbackRule])
                       /\ ShuffleValid(sortedRules[fallbackRule])
    /\ UNCHANGED <<tpc, ruleIdx, placed>>
    /\ frameTowns

\* Second pass, one of the breaks: no rule selected, or no fallback rule.
Pass2Break ==
    /\ tpc = "pass2"
    /\ Len(towns) < config.totalTowns
    /\ \/ selectRuleByTarget(towns, sortedRules) = {}
       \/ \E r \in selectRuleByTarget(towns, sortedRules) :
             /\ ValidCenters(sortedRules[r], placedCenters) = {}
             /\ findFallbackRule(sortedRules, placedCenters) = 0
    /\ stats' = [stats EXCEPT !.total = Len(towns)]
    /\ tpc' = "done"
    /\ UNCHANGED <<towns, placedCenters, ruleIdx, placed>>
    /\ UNCHANGED cachedVars
    /\ frameTowns

\* Second pass, towns.length reached totalTowns.
Pass2Full ==
    /\ tpc = "pass2"
    /\ Len(towns) >= config.totalTowns
    /\ stats' = [stats EXCEPT !.total = Len(towns)]
    /\ tpc' = "done"
    /\ UNCHANGED <<towns, placedCenters, ruleIdx, placed>>
    /\ UNCHANGED cachedVars
    /\ frameTowns

NextTowns ==
    \/ Pass1Place
    \/ Pass1Exhausted
    \/ Pass1NextRule
    \/ Pass1End
    \/ Pass2Place
    \/ Pass2Fallback
    \/ Pass2Break
    \/ Pass2Full

SpecTowns == InitTowns /\ [][NextTowns]_vars

(***************************************************************************)
(* Claims about TownGenerator.generate().                                  *)
(***************************************************************************)
TownPoint(i) == mapData.centers[towns[i].center].point

SomeValidCandidate ==
    \E i \in DOMAIN sortedRules : ValidCenters(sortedRules[i], placedCenters) # {}

AllRulesAtMax ==
    \A i \in DOMAIN sortedRules : AtMax(towns, sortedRules[i])

AllMinimumsMet ==
    \A i \in DOMAIN sortedRules :
        CountFor(towns, sortedRules[i]) >= sortedRules[i].minCount

\* C1: any two distinct towns are at least config.minDistance apart
\* (centre to centre), in every state of generate() and so in its result.
C1_MinDistance ==
    \A i, j \in DOMAIN towns :
        i # j => ~DistLess(TownPoint(i), TownPoint(j), config.minDistance)

\* C1 witness: generate() has returned several towns under a positive
\* minDistance that ruled out a Region close to a placed town.
C1_Witness ==
    /\ tpc = "done"
    /\ config.minDistance > 0
    /\ Len(towns) >= 3
    /\ \E c \in SeqToSet(landCenters) \ placedCenters :
          \E p \in placedCenters :
              DistLess(mapData.centers[c].point, mapData.centers[p].point,
                       config.minDistance)

\* C2: no two towns own the same Region, whatever minDistance is.
C2_UniqueRegion ==
    \A i, j \in DOMAIN towns : i # j => towns[i].center # towns[j].center

\* C2 witness: generate() has returned, with minDistance <= 0, a town placed
\* for an elevation rule on a Region that is a candidate of another rule too.
C2_Witness ==
    /\ tpc = "done"
    /\ config.minDistance <= 0
    /\ Len(towns) >= 2
    /\ \E i \in DOMAIN towns : \E r \in DOMAIN sortedRules :
          /\ towns[i].type = "elevation"
          /\ sortedRules[r] # towns[i].rule
          /\ towns[i].center \in SeqToSet(getCandidatesForRule(sortedRules[r]))

\* C5 (as claimed): when generate() returns, stats.rulesFullfilled is true
\* exactly when every rule has at least minCount towns.
C5_Claim ==
    tpc = "done" => (stats.rulesFullfilled <=> AllMinimumsMet)

\* C6 (as claimed): a rule with maxCount > 0 never has more than maxCount towns.
C6_Claim ==
    \A i \in DOMAIN sortedRules :
        sortedRules[i].maxCount > 0
            => CountFor(towns, sortedRules[i]) <= sortedRules[i].maxCount

\* C7 (as claimed): generate() returns fewer than totalTowns towns only when
\* no rule has a valid candidate left.
C7_Claim ==
    (tpc = "done" /\ Len(towns) < config.totalTowns) => ~SomeValidCandidate

\* C7 (amended): generate() returns fewer than totalTowns towns only when no
\* rule has a valid candidate left or every rule is at its maxCount; and in
\* the second pass, while fewer than totalTowns towns are placed, some rule
\* has a valid candidate and not every rule is at its maxCount, the next step
\* places a town.
C7_Amended ==
    /\ []((tpc = "done" /\ Len(towns) < config.totalTowns)
            => (~SomeValidCandidate \/ AllRulesAtMax))
    /\ [][(/\ tpc = "pass2"
           /\ Len(towns) < config.totalTowns
           /\ SomeValidCandidate
           /\ ~AllRulesAtMax) => Len(towns') = Len(towns) + 1]_vars

\* C7 witness: generate() returned fewer than totalTowns towns with every
\* rule at its maxCount while a valid candidate was left.
C7_Witness ==
    /\ tpc = "done"
    /\ Len(towns) < config.totalTowns
    /\ AllRulesAtMax
    /\ SomeValidCandidate

IsDefaultRun == config = DEFAULT_TOWN_CONFIG

TwoPerCategory ==
    \A i \in DOMAIN sortedRules : Len(getCandidatesForRule(sortedRules[i])) >= 2

RECURSIVE SqrtSearch(_, _, _)
SqrtSearch(n, lo, hi) ==
    IF lo >= hi THEN lo
    ELSE LET mid == (lo + hi + 1) \div 2
         IN  IF mid * mid <= n THEN SqrtSearch(n, mid, hi)
             ELSE SqrtSearch(n, lo, mid - 1)

\* Math.sqrt, rounded down, for 0 <= n < 2^30.
ISqrt(n) == SqrtSearch(n, 0, 32767)

\* euclidean(a, b), in hundredths.
euclidean(a, b) == ISqrt(10000 * DistSq(a, b))

CenterPoint(c) == mapData.centers[c].point

TownDist(i, j) ==
    euclidean(CenterPoint(towns[i].center), CenterPoint(towns[j].center))

\* A cost is a number, or -1 for Infinity.
CostLess(a, b) == a >= 0 /\ (b < 0 \/ a < b)

\* buildMST: the vertex picked in one iteration, the first v not in the tree
\* whose minCost is below that of every earlier one.
RECURSIVE PickCheapest(_, _, _, _, _)
PickCheapest(n, inMST, minCost, v, u) ==
    IF v > n THEN u
    ELSE IF v \notin inMST /\ (u = 0 \/ CostLess(minCost[v], minCost[u]))
         THEN PickCheapest(n, inMST, minCost, v + 1, v)
         ELSE PickCheapest(n, inMST, minCost, v + 1, u)

\* buildMST: iterations iter..n of the outer loop; st holds edges, inMST,
\* minCost and minEdge (0 for -1).
RECURSIVE PrimLoop(_, _, _)
PrimLoop(n, iter, st) ==
    IF iter > n THEN st.edges
    ELSE LET u == PickCheapest(n, st.inMST, st.minCost, 1, 0)
             inMST == st.inMST \cup {u}
             edges == IF st.minEdge[u] # 0
                      THEN Append(st.edges, <<u, st.minEdge[u]>>)
                      ELSE st.edges
             closer(v) == v \notin inMST /\ CostLess(TownDist(u, v), st.minCost[v])
         IN  PrimLoop(n, iter + 1,
                [edges |-> edges,
                 inMST |-> inMST,
                 minCost |-> [v \in 1..n |->
                                 IF closer(v) THEN TownDist(u, v) ELSE st.minCost[v]],
                 minEdge |-> [v \in 1..n |->
                                 IF closer(v) THEN u ELSE st.minEdge[v]]])

buildMST_OneShort(n) ==
    PrimLoop(n - 1, 1,
        [edges |-> <<>>, inMST |-> {},
         minCost |-> [v \in 1..n |-> IF v = 1 THEN 0 ELSE -1],
         minEdge |-> [v \in 1..n |-> 0]])

\* buildMST(towns), for n = towns.length.
buildMST(n) ==
    PrimLoop(n, 1,
        [edges |-> <<>>, inMST |-> {},
         minCost |-> [v \in 1..n |-> IF v = 1 THEN 0 ELSE -1],
         minEdge |-> [v \in 1..n |-> 0]])

PairKey(a, b) == IF a < b THEN <<a, b>> ELSE <<b, a>>

\* addExtraEdges: the non-tree pairs in the order of the two for loops.
ExtraCandidates(n, mst) ==
    LET existing == {PairKey(mst[k][1], mst[k][2]) : k \in DOMAIN mst}
        all == [k \in 1..(n * n) |-> <<((k - 1) \div n) + 1, ((k - 1) % n) + 1>>]
    IN  SelectSeq(all, LAMBDA c : c[1] < c[2] /\ c \notin existing)

\* candidates.sort((a, b) => a.d - b.d), a stable sort.
RECURSIVE InsertByDistance(_, _)
InsertByDistance(sorted, c) ==
    IF sorted = <<>> THEN <<c>>
    ELSE IF TownDist(Head(sorted)[1], Head(sorted)[2]) <= TownDist(c[1], c[2])
         THEN <<Head(sorted)>> \o InsertByDistance(Tail(sorted), c)
         ELSE <<c>> \o sorted

RECURSIVE SortByDistance(_)
SortByDistance(cs) ==
    IF cs = <<>> THEN <<>>
    ELSE InsertByDistance(SortByDistance(SubSeq(cs, 1, Len(cs) - 1)), cs[Len(cs)])

maxExtras_Twice(mst) ==
    IF (3 * Len(mst)) \div 10 > 1 THEN 2 * ((3 * Len(mst)) \div 10) ELSE 2

\* Math.max(1, Math.floor(mstEdges.length * 0.3))
maxExtras(mst) ==
    IF (3 * Len(mst)) \div 10 > 1 THEN (3 * Len(mst)) \div 10 ELSE 1

\* addExtraEdges: every list it can return.  Each candidate is taken or
\* skipped on random.next() < 0.6, in sorted order, until maxExtras are taken.
addExtraEdges(n, mst) ==
    LET candidates == SortByDistance(ExtraCandidates(n, mst))
    IN  { SelectSeq(candidates, LAMBDA c : c \in taken) :
            taken \in {T \in SUBSET SeqToSet(candidates) :
                          Cardinality(T) <= maxExtras(mst)} }

\* findPath: the node of openSet with the least fScore, the first on ties.
RECURSIVE CheapestOpen(_, _, _, _)
CheapestOpen(open, fScore, k, current) ==
    IF k > Len(open) THEN current
    ELSE IF current = 0 \/ fScore[open[k]] < fScore[current]
         THEN CheapestOpen(open, fScore, k + 1, open[k])
         ELSE CheapestOpen(open, fScore, k + 1, current)

RECURSIVE Reconstruct(_, _)
Reconstruct(cameFrom, node) ==
    IF cameFrom[node] = 0 THEN <<node>>
    ELSE Append(Reconstruct(cameFrom, cameFrom[node]), node)

\* The neighbor loop skipping only ocean Regions.
RECURSIVE Relax_ThroughWater(_, _, _, _, _)
Relax_ThroughWater(st, current, k, start, end) ==
    LET cc == mapData.centers[current]
    IN  IF k > Len(cc.neighbors) THEN st
        ELSE LET nb == cc.neighbors[k]
                 neighbor == mapData.centers[nb]
                 moveCost == euclidean(cc.point, neighbor.point)
                                * (1000 + neighbor.elevation * 2)
                 tentativeG == st.gScore[current] + moveCost
             IN  IF neighbor.ocean
                 THEN Relax_ThroughWater(st, current, k + 1, start, end)
                 ELSE IF CostLess(tentativeG, st.gScore[nb])
                 THEN Relax_ThroughWater(
                        [openSet |-> IF nb \in SeqToSet(st.openSet) THEN st.openSet
                                     ELSE Append(st.openSet, nb),
                         cameFrom |-> [st.cameFrom EXCEPT ![nb] = current],
                         gScore |-> [st.gScore EXCEPT ![nb] = tentativeG],
                         fScore |-> [st.fScore EXCEPT ![nb] =
                            tentativeG + 1000 * euclidean(neighbor.point,
                                                         CenterPoint(end))]],
                        current, k + 1, start, end)
                 ELSE Relax_ThroughWater(st, current, k + 1, start, end)

\* findPath: the for loop over the neighbors k.. of current.
RECURSIVE Relax(_, _, _, _, _)
Relax(st, current, k, start, end) ==
    LET cc == mapData.centers[current]
    IN  IF k > Len(cc.neighbors) THEN st
        ELSE LET nb == cc.neighbors[k]
                 neighbor == mapData.centers[nb]
                 moveCost == euclidean(cc.point, neighbor.point)
                                * (1000 + neighbor.elevation * 2)
                 tentativeG == st.gScore[current] + moveCost
             IN  IF \/ neighbor.ocean
                    \/ neighbor.water /\ nb # end /\ nb # start
                 THEN Relax(st, current, k + 1, start, end)
                 ELSE IF CostLess(tentativeG, st.gScore[nb])
                 THEN Relax(
                        [openSet |-> IF nb \in SeqToSet(st.openSet) THEN st.openSet
                                     ELSE Append(st.openSet, nb),
                         cameFrom |-> [st.cameFrom EXCEPT ![nb] = current],
                         gScore |-> [st.gScore EXCEPT ![nb] = tentativeG],
                         fScore |-> [st.fScore EXCEPT ![nb] =
                            tentativeG + 1000 * euclidean(neighbor.point,
                                                         CenterPoint(end))]],
                        current, k + 1, start, end)
                 ELSE Relax(st, current, k + 1, start, end)

\* findPath: the while loop; the result is the list of Centers whose points
\* make the path.
RECURSIVE AStar(_, _, _)
AStar(st, start, end) ==
    IF st.openSet = <<>> THEN <<start, end>>
    ELSE LET current == CheapestOpen(st.openSet, st.fScore, 1, 0)
         IN  IF current = end THEN Reconstruct(st.cameFrom, current)
             ELSE AStar(Relax([st EXCEPT !.openSet =
                                  SelectSeq(st.openSet, LAMBDA x : x # current)],
                              current, 1, start, end),
                        start, end)

\* The straight line without a search.
findPath_Straight(start, end) ==
    IF start = end THEN <<start>> ELSE <<start, end>>

findPath(start, end) ==
    IF start = end THEN <<start>>
    ELSE AStar([openSet |-> <<start>>,
                cameFrom |-> [c \in DOMAIN mapData.centers |-> 0],
                gScore |-> [c \in DOMAIN mapData.centers |->
                               IF c = start THEN 0 ELSE -1],
                fScore |-> [c \in DOMAIN mapData.centers |->
                               IF c = start
                               THEN 1000 * euclidean(CenterPoint(start), CenterPoint(end))
                               ELSE -1]],
               start, end)

pathLength_Hops(path) == Len(path) - 1

RECURSIVE pathLength(_)
pathLength(path) ==
    IF Len(path) < 2 THEN 0
    ELSE pathLength(SubSeq(path, 1, Len(path) - 1))
         + euclidean(CenterPoint(path[Len(path) - 1]), CenterPoint(path[Len(path)]))

allEdges == mstEdges \o extraEdges

\* Lists of towns on distinct land Regions, as generate() returns them.
RECURSIVE TownLists(_, _)
TownLists(md, n) ==
    IF n = 0 THEN {<<>>}
    ELSE LET shorter == TownLists(md, n - 1)
         IN  shorter \cup
             { Append(ts, c) : ts \in {t \in shorter : Len(t) = n - 1},
                               c \in SeqToSet(LandCentersOf(md)) }

DistinctLists(md, n) ==
    {ts \in TownLists(md, n) : \A i, j \in DOMAIN ts : i # j => ts[i] # ts[j]}

RoadMaps == TownMaps

InitRoads ==
    /\ mapData \in RoadMaps
    /\ config = DEFAULT_TOWN_CONFIG
    /\ landCenters = LandCentersOf(mapData)
    /\ shorelineCenters = ShorelineCentersOf(mapData)
    /\ riverCenters = RiverCentersOf(mapData)
    /\ \E cs \in DistinctLists(mapData, MaxRoadTowns) :
          /\ towns = [i \in DOMAIN cs |->
                        createTown(i - 1, cs[i], DEFAULT_TOWN_CONFIG.rules[5])]
          /\ placedCenters = SeqToSet(cs)
          /\ stats = [total |-> Len(cs),
                      byType |-> [t \in TownTypes |->
                                    IF t = "inland" THEN Len(cs) ELSE 0],
                      rulesFullfilled |-> TRUE]
    /\ tpc = "done"
    /\ ruleIdx = Len(sortedRules) + 1
    /\ placed = 0
    /\ mstEdges = <<>>
    /\ extraEdges = <<>>
    /\ roads = <<>>
    /\ adjacency = <<>>
    /\ rpc = "start"
    /\ edgePos = 0
    /\ paths = <<>>
    /\ npc = "idle"
    /\ edgeIdx = 0
    /\ NamesIdle
    /\ mconfig = DEFAULT_CONFIG
    /\ graph = [centers |-> mapData.centers, corners |-> <<>>, edges |-> mapData.edges]
    /\ islandShape = {}
    /\ mpc = "done"

frameRoads == UNCHANGED <<mapData, townVars, genVars, noisyVars, nameVars>>

\* generateRoads: towns.length < 2, return no roads and an empty adjacency.
RoadsTrivial ==
    /\ rpc = "start"
    /\ Len(towns) < 2
    /\ rpc' = "done"
    /\ UNCHANGED <<mstEdges, extraEdges, roads, adjacency, edgePos>>
    /\ frameRoads

\* generateRoads: steps 1 and 2, and the empty adjacency list of every town.
RoadsEdges ==
    /\ rpc = "start"
    /\ Len(towns) >= 2
    /\ mstEdges' = buildMST(Len(towns))
    /\ extraEdges' \in addExtraEdges(Len(towns), buildMST(Len(towns)))
    /\ roads' = <<>>
    /\ adjacency' = [id \in {towns[i].id : i \in DOMAIN towns} |-> <<>>]
    /\ edgePos' = 1
    /\ rpc' = "paths"
    /\ frameRoads

\* generateRoads: step 3, one iteration of the loop over allEdges.
RoadsPath ==
    /\ rpc = "paths"
    /\ edgePos <= Len(allEdges)
    /\ LET townA == towns[allEdges[edgePos][1]]
           townB == towns[allEdges[edgePos][2]]
           path == findPath(townA.center, townB.center)
       IN  IF Len(path) >= 2
           THEN /\ roads' = Append(roads, [from |-> townA.id, to |-> townB.id,
                                           path |-> path,
                                           length |-> pathLength(path)])
                /\ adjacency' = [adjacency EXCEPT
                                   ![townA.id] = Append(@, townB.id),
                                   ![townB.id] = Append(@, townA.id)]
           ELSE UNCHANGED <<roads, adjacency>>
    /\ edgePos' = edgePos + 1
    /\ UNCHANGED <<mstEdges, extraEdges, rpc>>
    /\ frameRoads

\* generateRoads: return { roads, adjacency }.
RoadsReturn ==
    /\ rpc = "paths"
    /\ edgePos > Len(allEdges)
    /\ rpc' = "done"
    /\ UNCHANGED <<mstEdges, extraEdges, roads, adjacency, edgePos>>
    /\ frameRoads

NextRoads ==
    \/ RoadsTrivial
    \/ RoadsEdges
    \/ RoadsPath
    \/ RoadsReturn

SpecRoads == InitRoads /\ [][NextRoads]_vars

\* generateRoads for up to MaxNetworkTowns towns on the two islands of KindsC.
InitNetwork ==
    /\ mapData = GridMap(KindsC, 30, {<<4, 8>>})
    /\ config = DEFAULT_TOWN_CONFIG
    /\ landCenters = LandCentersOf(mapData)
    /\ shorelineCenters = ShorelineCentersOf(mapData)
    /\ riverCenters = RiverCentersOf(mapData)
    /\ \E cs \in DistinctLists(mapData, MaxNetworkTowns) :
          /\ towns = [i \in DOMAIN cs |->
                        createTown(i - 1, cs[i], DEFAULT_TOWN_CONFIG.rules[5])]
          /\ placedCenters = SeqToSet(cs)
          /\ stats = [total |-> Len(cs),
                      byType |-> [t \in TownTypes |->
                                    IF t = "inland" THEN Len(cs) ELSE 0],
                      rulesFullfilled |-> TRUE]
    /\ tpc = "done"
    /\ ruleIdx = Len(sortedRules) + 1
    /\ placed = 0
    /\ mstEdges = <<>>
    /\ extraEdges = <<>>
    /\ roads = <<>>
    /\ adjacency = <<>>
    /\ rpc = "start"
    /\ edgePos = 0
    /\ paths = <<>>
    /\ npc = "idle"
    /\ edgeIdx = 0
    /\ NamesIdle
    /\ mconfig = DEFAULT_CONFIG
    /\ graph = [centers |-> mapData.centers, corners |-> <<>>, edges |-> mapData.edges]
    /\ islandShape = {}
    /\ mpc = "done"

SpecNetwork == InitNetwork /\ [][NextRoads]_vars

(***************************************************************************)
(* Claims about generateRoads().                                           *)
(***************************************************************************)
RECURSIVE ReachFrom(_, _)
ReachFrom(adj, seen) ==
    LET more == seen \cup UNION {SeqToSet(adj[a]) : a \in seen}
    IN  IF more = seen THEN seen ELSE ReachFrom(adj, more)

IsFallbackPath(path) ==
    Len(path) = 2 /\ path[2] \notin SeqToSet(mapData.centers[path[1]].neighbors)

\* C3: for two or more settlements, every settlement id is reachable from
\* every other by following the adjacency returned by generateRoads.
C3_Connected ==
    (rpc = "done" /\ Len(towns) >= 2)
        => \A a \in DOMAIN adjacency : ReachFrom(adjacency, {a}) = DOMAIN adjacency

\* C3 witness: generateRoads has returned for three towns, and one of the
\* roads is the straight line used when the search finds no path.
C3_Witness ==
    /\ rpc = "done"
    /\ Len(towns) >= 3
    /\ DOMAIN adjacency = {towns[i].id : i \in DOMAIN towns}
    /\ \E r \in DOMAIN roads :
          /\ IsFallbackPath(roads[r].path)
          /\ mapData.centers[roads[r].path[1]].neighbors # <<>>

(***************************************************************************)
(* The graph buildGraph returns (voronoi.ts).  The triangulation is the    *)
(* Delaunator library's; the model takes a graph of 7 Centers and 9        *)
(* Corners in three rings: the inner Center 1 with Corners 1..3, around it *)
(* the Centers 2..4, around them the Centers 5..7, which reach to the      *)
(* border Corners 7..9.  Edges 13..15 are hull half-edges with v1 = null.  *)
(* For 10 points it takes the same with one more ring.  For fewer than 3   *)
(* points the triangulation has no triangle: the graph has the numPoints   *)
(* Centers and no Corner or Edge.                                          *)
(***************************************************************************)
RingCornersOf ==
    << <<1, 2, 3>>, <<1, 2, 5, 4>>, <<2, 3, 6, 5>>, <<3, 1, 4, 6>>,
       <<4, 5, 8, 7>>, <<5, 6, 9, 8>>, <<6, 4, 7, 9>> >>

\* <<d0, d1, v0, v1>> of each Edge.
RingEdgeTable ==
    << <<1, 2, 1, 2>>, <<1, 3, 2, 3>>, <<1, 4, 3, 1>>,
       <<4, 2, 1, 4>>, <<2, 3, 2, 5>>, <<3, 4, 3, 6>>,
       <<2, 5, 4, 5>>, <<3, 6, 5, 6>>, <<4, 7, 6, 4>>,
       <<7, 5, 4, 7>>, <<5, 6, 5, 8>>, <<6, 7, 6, 9>>,
       <<7, 5, 7, 0>>, <<5, 6, 8, 0>>, <<6, 7, 9, 0>> >>

RingCenterPoints ==
    << <<400, 300>>, <<400, 200>>, <<480, 350>>, <<320, 350>>,
       <<400, 60>>, <<640, 460>>, <<160, 460>> >>

RingCornerPoints ==
    << <<360, 270>>, <<440, 275>>, <<400, 340>>,
       <<250, 200>>, <<550, 205>>, <<405, 480>>,
       <<0, 150>>, <<800, 155>>, <<410, 600>> >>

\* Append x to the list s unless it is in it (the includes() checks).
AddOnce(s, x) == IF x \in SeqToSet(s) THEN s ELSE Append(s, x)

\* buildGraph, the loop over the halfedges: the lists it fills for a Corner
\* or a Center, scanning the Edges e.. in order.
RECURSIVE AdjacentScan(_, _, _, _)
AdjacentScan(table, c, e, acc) ==
    IF e > Len(table) THEN acc
    ELSE LET v0 == table[e][3]
             v1 == table[e][4]
         IN  AdjacentScan(table, c, e + 1,
                IF v1 = 0 THEN acc
                ELSE IF v0 = c THEN AddOnce(acc, v1)
                ELSE IF v1 = c THEN AddOnce(acc, v0)
                ELSE acc)

RECURSIVE NeighborScan(_, _, _, _)
NeighborScan(table, p, e, acc) ==
    IF e > Len(table) THEN acc
    ELSE NeighborScan(table, p, e + 1,
            IF table[e][1] = p THEN AddOnce(acc, table[e][2])
            ELSE IF table[e][2] = p THEN AddOnce(acc, table[e][1])
            ELSE acc)

Max(a, b) == IF a >= b THEN a ELSE b

Min(a, b) == IF a <= b THEN a ELSE b

\* getCorner: the point clamped to the map's bounds.
ClampPoint(cfg, p) ==
    <<Max(0, Min(cfg.width, p[1])), Max(0, Min(cfg.height, p[2]))>>

\* The border flag of a Corner: its clamped point is within 1 of the map's
\* boundary, which every point clamped to a width or height <= 0 is.
IsBorder(cfg, p) ==
    \/ p[1] <= 1 \/ p[1] >= cfg.width - 1
    \/ p[2] <= 1 \/ p[2] >= cfg.height - 1

GraphOf(cfg, cornersOf, edgeTable, centerPoints, cornerPoints) ==
    [centers |->
        [p \in DOMAIN cornersOf |->
            [index |-> p, point |-> centerPoints[p],
             ocean |-> FALSE, water |-> FALSE, coast |-> FALSE, border |-> FALSE,
             elevation |-> 0, moisture |-> 0, biome |-> "OCEAN",
             neighbors |-> NeighborScan(edgeTable, p, 1, <<>>),
             borders |-> SelectSeq([e \in DOMAIN edgeTable |-> e],
                            LAMBDA e : edgeTable[e][1] = p \/ edgeTable[e][2] = p),
             corners |-> cornersOf[p]]],
     corners |->
        [c \in DOMAIN cornerPoints |->
            [index |-> c, point |-> ClampPoint(cfg, cornerPoints[c]),
             ocean |-> FALSE, water |-> FALSE, coast |-> FALSE,
             border |-> IsBorder(cfg, ClampPoint(cfg, cornerPoints[c])),
             elevation |-> 0, moisture |-> 0,
             touches |-> SelectSeq([p \in DOMAIN cornersOf |-> p],
                            LAMBDA p : c \in SeqToSet(cornersOf[p])),
             protrudes |-> SelectSeq([e \in DOMAIN edgeTable |-> e],
                            LAMBDA e : edgeTable[e][3] = c \/ edgeTable[e][4] = c),
             adjacent |-> AdjacentScan(edgeTable, c, 1, <<>>),
             river |-> 0, downslope |-> 0]],
     edges |->
        [e \in DOMAIN edgeTable |->
            [index |-> e, d0 |-> edgeTable[e][1], d1 |-> edgeTable[e][2],
             v0 |-> edgeTable[e][3], v1 |-> edgeTable[e][4], river |-> 0]]]

RingGraph(cfg) ==
    GraphOf(cfg, RingCornersOf, RingEdgeTable, RingCenterPoints, RingCornerPoints)

\* A graph one ring deeper: 10 Centers and 12 Corners in four rings, the
\* Corners 10..12 on the border, the Edges 19..21 hull half-edges.
DeepCornersOf ==
    << <<1, 2, 3>>, <<1, 2, 5, 4>>, <<2, 3, 6, 5>>, <<3, 1, 4, 6>>,
       <<4, 5, 8, 7>>, <<5, 6, 9, 8>>, <<6, 4, 7, 9>>,
       <<7, 8, 11, 10>>, <<8, 9, 12, 11>>, <<9, 7, 10, 12>> >>

DeepEdgeTable ==
    << <<1, 2, 1, 2>>, <<1, 3, 2, 3>>, <<1, 4, 3, 1>>,
       <<4, 2, 1, 4>>, <<2, 3, 2, 5>>, <<3, 4, 3, 6>>,
       <<2, 5, 4, 5>>, <<3, 6, 5, 6>>, <<4, 7, 6, 4>>,
       <<7, 5, 4, 7>>, <<5, 6, 5, 8>>, <<6, 7, 6, 9>>,
       <<5, 8, 7, 8>>, <<6, 9, 8, 9>>, <<7, 10, 9, 7>>,
       <<10, 8, 7, 10>>, <<8, 9, 8, 11>>, <<9, 10, 9, 12>>,
       <<10, 8, 10, 0>>, <<8, 9, 11, 0>>, <<9, 10, 12, 0>> >>

DeepCenterPoints ==
    << <<400, 300>>, <<400, 230>>, <<460, 340>>, <<340, 340>>,
       <<400, 190>>, <<520, 400>>, <<280, 400>>,
       <<400, 60>>, <<680, 480>>, <<120, 480>> >>

DeepCornerPoints ==
    << <<360, 270>>, <<440, 275>>, <<400, 340>>,
       <<250, 200>>, <<550, 205>>, <<405, 480>>,
       <<150, 180>>, <<650, 185>>, <<415, 540>>,
       <<0, 150>>, <<800, 155>>, <<410, 600>> >>

DeepGraph(cfg) ==
    GraphOf(cfg, DeepCornersOf, DeepEdgeTable, DeepCenterPoints, DeepCornerPoints)

PointsGraph(cfg) ==
    [centers |->
        [p \in 1..cfg.numPoints |->
            [index |-> p, point |-> <<10 * p, 10 * p>>,
             ocean |-> FALSE, water |-> FALSE, coast |-> FALSE, border |-> FALSE,
             elevation |-> 0, moisture |-> 0, biome |-> "OCEAN",
             neighbors |-> <<>>, borders |-> <<>>, corners |-> <<>>]],
     corners |-> <<>>,
     edges |-> <<>>]

buildGraph(cfg) ==
    IF cfg.numPoints < 3 THEN PointsGraph(cfg)
    ELSE IF cfg.numPoints < 10 THEN RingGraph(cfg)
    ELSE DeepGraph(cfg)

EmptyGraph == [centers |-> <<>>, corners |-> <<>>, edges |-> <<>>]

(***************************************************************************)
(* Terrain (terrain.ts).  Each stage is an operator from the graph to the  *)
(* graph the stage leaves.                                                 *)
(***************************************************************************)
\* assignWater, the flood fill: the while loop over the queue, and in it the
\* for loop over corner.adjacent from position k.
RECURSIVE FloodAdjacent(_, _, _, _)
FloodAdjacent(corners, queue, c, k) ==
    IF k > Len(corners[c].adjacent) THEN [corners |-> corners, queue |-> queue]
    ELSE LET adj == corners[c].adjacent[k]
         IN  IF corners[adj].water /\ ~corners[adj].ocean
             THEN FloodAdjacent([corners EXCEPT ![adj].ocean = TRUE],
                                Append(queue, adj), c, k + 1)
             ELSE FloodAdjacent(corners, queue, c, k + 1)

RECURSIVE FloodFill_OneLevel(_, _)
FloodFill_OneLevel(corners, queue) ==
    IF queue = <<>> THEN corners
    ELSE FloodFill_OneLevel(FloodAdjacent(corners, <<>>, Head(queue), 1).corners,
                            Tail(queue))

RECURSIVE FloodFill(_, _)
FloodFill(corners, queue) ==
    IF queue = <<>> THEN corners
    ELSE LET r == FloodAdjacent(corners, Tail(queue), Head(queue), 1)
         IN  FloodFill(r.corners, r.queue)

\* assignWater, lines 14-40: water from the island shape, ocean = border,
\* then the border Corners made ocean and water.
WaterSeed_BorderNotForced(g, shape) ==
    [c \in DOMAIN g.corners |->
        [g.corners[c] EXCEPT !.water = c \in shape,
                             !.ocean = g.corners[c].border]]

WaterSeed(g, shape) ==
    [c \in DOMAIN g.corners |->
        [g.corners[c] EXCEPT !.water = (c \in shape) \/ g.corners[c].border,
                             !.ocean = g.corners[c].border]]

BorderQueue(g) == SelectSeq([c \in DOMAIN g.corners |-> c], LAMBDA c : g.corners[c].border)

\* assignWater, lines 54-72: the flags of a Center from its Corners.
CenterWater(center, corners, cfg) ==
    LET n == Len(center.corners)
        numWater == Len(SelectSeq(center.corners, LAMBDA c : corners[c].water))
        numOcean == Len(SelectSeq(center.corners, LAMBDA c : corners[c].ocean))
        onBorder == \E c \in SeqToSet(center.corners) : corners[c].border
    IN  [center EXCEPT
            !.water = onBorder \/ numWater * 100 >= n * cfg.lakeFactor,
            !.ocean = onBorder \/ numOcean * 2 >= n,
            !.border = onBorder \/ center.border]

assignWater(g, cfg, shape) ==
    LET corners1 == FloodFill(WaterSeed(g, shape), BorderQueue(g))
        centers1 == [p \in DOMAIN g.centers |-> CenterWater(g.centers[p], corners1, cfg)]
        centers2 == [p \in DOMAIN centers1 |->
                        [centers1[p] EXCEPT !.coast =
                            \/ centers1[p].coast
                            \/ /\ ~centers1[p].water
                               /\ \E q \in SeqToSet(centers1[p].neighbors) :
                                     centers1[q].ocean]]
        corners2 == [c \in DOMAIN corners1 |->
                        [corners1[c] EXCEPT !.coast =
                            /\ \E p \in SeqToSet(corners1[c].touches) : ~centers2[p].water
                            /\ \E p \in SeqToSet(corners1[c].touches) : centers2[p].ocean]]
    IN  [g EXCEPT !.centers = centers2, !.corners = corners2]


\* The elevation a Corner off the coast starts the search with (Infinity),
\* in hundredths like the search's step of 0.01.
Infinity == 1000000

\* assignElevation, lines 104-114: 0 for ocean and coast Corners, which are
\* queued in Corner order.
ElevationSeed(corners) ==
    [c \in DOMAIN corners |->
        [corners[c] EXCEPT !.elevation =
            IF corners[c].ocean \/ corners[c].coast THEN 0 ELSE Infinity]]

ElevationQueue(corners) ==
    SelectSeq([c \in DOMAIN corners |-> c],
           LAMBDA c : corners[c].ocean \/ corners[c].coast)

\* assignElevation, lines 117-128: the search, one step of 0.01 per Corner.
RECURSIVE ElevationAdjacent(_, _, _, _)
ElevationAdjacent(corners, queue, c, k) ==
    IF k > Len(corners[c].adjacent) THEN [corners |-> corners, queue |-> queue]
    ELSE LET adj == corners[c].adjacent[k]
             newElevation == IF corners[c].elevation = Infinity THEN Infinity
                             ELSE corners[c].elevation + 1
         IN  IF ~corners[adj].water /\ newElevation < corners[adj].elevation
             THEN ElevationAdjacent([corners EXCEPT ![adj].elevation = newElevation],
                                    Append(queue, adj), c, k + 1)
             ELSE ElevationAdjacent(corners, queue, c, k + 1)

RECURSIVE ElevationSearch(_, _)
ElevationSearch(corners, queue) ==
    IF queue = <<>> THEN corners
    ELSE LET r == ElevationAdjacent(corners, Tail(queue), Head(queue), 1)
         IN  ElevationSearch(r.corners, r.queue)

\* Array.prototype.sort with the comparator a.key - b.key: a stable sort of
\* the Corner indices in s by key, ascending.
RECURSIVE InsertByKey(_, _, _)
InsertByKey(sorted, c, key) ==
    IF sorted = <<>> THEN <<c>>
    ELSE LET last == sorted[Len(sorted)]
         IN  IF key[last] <= key[c] THEN Append(sorted, c)
             ELSE Append(InsertByKey(SubSeq(sorted, 1, Len(sorted) - 1), c, key), last)

RECURSIVE SortByKey(_, _)
SortByKey(s, key) ==
    IF s = <<>> THEN <<>>
    ELSE InsertByKey(SortByKey(SubSeq(s, 1, Len(s) - 1), key), s[Len(s)], key)

\* The 1-based position of x in the list s, 0 if it is not in it.
PositionIn(s, x) ==
    IF x \in SeqToSet(s) THEN CHOOSE i \in DOMAIN s : s[i] = x ELSE 0

LandCornersOf(corners) ==
    SelectSeq([c \in DOMAIN corners |-> c], LAMBDA c : ~corners[c].ocean)

\* The mean over a Center's Corners of the field, sum / (length || 1).
CornerSum(s, value) ==
    LET RECURSIVE Sum(_)
        Sum(k) == IF k = 0 THEN 0 ELSE Sum(k - 1) + value[s[k]]
    IN  Sum(Len(s))

CornerMean(s, value) == CornerSum(s, value) \div (IF Len(s) = 0 THEN 1 ELSE Len(s))

\* The rank redistributed without the square root, i / (n - 1).
RankElevation_Linear(i, n) == (1000 * i) \div (IF n - 1 = 0 THEN 1 ELSE n - 1)

\* assignElevation, lines 131-138: the rank of a Corner off the ocean among
\* such Corners by the search's elevation, redistributed as sqrt(i / (n - 1)),
\* in thousandths.
RankElevation(i, n) == ISqrt((1000000 * i) \div (IF n - 1 = 0 THEN 1 ELSE n - 1))

assignElevation(g) ==
    LET corners1 == ElevationSearch(ElevationSeed(g.corners), ElevationQueue(g.corners))
        landCorners == SortByKey(LandCornersOf(corners1),
                                 [c \in DOMAIN corners1 |-> corners1[c].elevation])
        corners2 == [c \in DOMAIN corners1 |->
                        [corners1[c] EXCEPT !.elevation =
                            IF corners1[c].ocean THEN 0
                            ELSE RankElevation(PositionIn(landCorners, c) - 1,
                                               Len(landCorners))]]
        elevation == [c \in DOMAIN corners2 |-> corners2[c].elevation]
    IN  [g EXCEPT !.corners = corners2,
                  !.centers = [p \in DOMAIN g.centers |->
                                  [g.centers[p] EXCEPT !.elevation =
                                      CornerMean(g.centers[p].corners, elevation)]]]

RECURSIVE LowestScan_OrEqual(_, _, _, _)
LowestScan_OrEqual(corners, c, k, lowest) ==
    IF k > Len(corners[c].adjacent) THEN lowest
    ELSE LET adj == corners[c].adjacent[k]
         IN  LowestScan_OrEqual(corners, c, k + 1,
                IF corners[adj].elevation <= corners[lowest].elevation
                THEN adj ELSE lowest)

\* calculateDownslopes: the first lowest of the Corners adjacent to c that is
\* lower than c, 0 (null) if none is.
RECURSIVE LowestScan(_, _, _, _)
LowestScan(corners, c, k, lowest) ==
    IF k > Len(corners[c].adjacent) THEN lowest
    ELSE LET adj == corners[c].adjacent[k]
         IN  LowestScan(corners, c, k + 1,
                IF corners[adj].elevation < corners[lowest].elevation
                THEN adj ELSE lowest)

calculateDownslopes(g) ==
    [g EXCEPT !.corners =
        [c \in DOMAIN g.corners |->
            [g.corners[c] EXCEPT !.downslope =
                LET lowest == LowestScan(g.corners, c, 1, c)
                IN  IF lowest = c THEN 0 ELSE lowest]]]

\* createRivers, lines 177-179: the Corners a river may start from.
RiverCandidates(g) ==
    SelectSeq([c \in DOMAIN g.corners |-> c],
           LAMBDA c : /\ ~g.corners[c].ocean
                      /\ ~g.corners[c].coast
                      /\ g.corners[c].elevation > 300)

RECURSIVE TraceRiver_AnyEdge(_, _)
TraceRiver_AnyEdge(g, current) ==
    IF current = 0 \/ g.corners[current].ocean THEN g
    ELSE IF g.corners[current].river > 0
    THEN [g EXCEPT !.corners[current].river = @ + 1]
    ELSE LET down == g.corners[current].downslope
             marked == [e \in DOMAIN g.edges |->
                          IF down # 0 /\ e \in SeqToSet(g.corners[current].protrudes)
                          THEN [g.edges[e] EXCEPT !.river = @ + 1]
                          ELSE g.edges[e]]
         IN  TraceRiver_AnyEdge([g EXCEPT !.corners[current].river = @ + 1,
                                          !.edges = marked], down)

RECURSIVE TraceRiver_Through(_, _)
TraceRiver_Through(g, current) ==
    IF current = 0 \/ g.corners[current].ocean THEN g
    ELSE LET down == g.corners[current].downslope
             marked == [e \in DOMAIN g.edges |->
                          IF /\ down # 0
                             /\ e \in SeqToSet(g.corners[current].protrudes)
                             /\ \/ g.edges[e].v0 = current /\ g.edges[e].v1 = down
                                \/ g.edges[e].v1 = current /\ g.edges[e].v0 = down
                          THEN [g.edges[e] EXCEPT !.river = @ + 1]
                          ELSE g.edges[e]]
         IN  TraceRiver_Through([g EXCEPT !.corners[current].river = @ + 1,
                                          !.edges = marked], down)

\* createRivers, lines 188-211: one river traced downhill from current.
RECURSIVE TraceRiver(_, _)
TraceRiver(g, current) ==
    IF current = 0 \/ g.corners[current].ocean THEN g
    ELSE IF g.corners[current].river > 0
    THEN [g EXCEPT !.corners[current].river = @ + 1]
    ELSE LET down == g.corners[current].downslope
             marked == [e \in DOMAIN g.edges |->
                          IF /\ down # 0
                             /\ e \in SeqToSet(g.corners[current].protrudes)
                             /\ \/ g.edges[e].v0 = current /\ g.edges[e].v1 = down
                                \/ g.edges[e].v1 = current /\ g.edges[e].v0 = down
                          THEN [g.edges[e] EXCEPT !.river = @ + 1]
                          ELSE g.edges[e]]
         IN  TraceRiver([g EXCEPT !.corners[current].river = @ + 1,
                                  !.edges = marked], down)

RECURSIVE TraceRivers(_, _)
TraceRivers(g, starts) ==
    IF starts = <<>> THEN g
    ELSE TraceRivers(TraceRiver(g, Head(starts)), Tail(starts))

\* The orders random.shuffle can leave the candidates in, cut where the loop
\* breaks: the lists of riverCount distinct candidates, or of all of them.
RiverStarts(candidates, riverCount) ==
    LET n == Min(Max(riverCount, 0), Len(candidates))
    IN  {s \in [1..n -> SeqToSet(candidates)] :
            \A i, j \in 1..n : i # j => s[i] # s[j]}

createRivers(g, starts) == TraceRivers(calculateDownslopes(g), starts)


\* assignMoisture, lines 222-229: the moisture of water and river Corners, in
\* thousandths, queued in Corner order.
MoistureSeed(corners) ==
    [c \in DOMAIN corners |->
        [corners[c] EXCEPT !.moisture =
            IF corners[c].river > 0 THEN Min(3000, corners[c].river * 200)
            ELSE IF corners[c].water THEN 1000
            ELSE 0]]

MoistureQueue(corners) ==
    SelectSeq([c \in DOMAIN corners |-> c],
           LAMBDA c : corners[c].water \/ corners[c].river > 0)

\* assignMoisture, lines 232-243: moisture spreads with a factor 0.9 a step.
RECURSIVE MoistureAdjacent(_, _, _, _)
MoistureAdjacent(corners, queue, c, k) ==
    IF k > Len(corners[c].adjacent) THEN [corners |-> corners, queue |-> queue]
    ELSE LET adj == corners[c].adjacent[k]
             newMoisture == (corners[c].moisture * 9) \div 10
         IN  IF newMoisture > corners[adj].moisture
             THEN MoistureAdjacent([corners EXCEPT ![adj].moisture = newMoisture],
                                   Append(queue, adj), c, k + 1)
             ELSE MoistureAdjacent(corners, queue, c, k + 1)

RECURSIVE MoistureSpread_NoRequeue(_, _)
MoistureSpread_NoRequeue(corners, queue) ==
    IF queue = <<>> THEN corners
    ELSE MoistureSpread_NoRequeue(
            MoistureAdjacent(corners, <<>>, Head(queue), 1).corners, Tail(queue))

RECURSIVE MoistureSpread(_, _)
MoistureSpread(corners, queue) ==
    IF queue = <<>> THEN corners
    ELSE LET r == MoistureAdjacent(corners, Tail(queue), Head(queue), 1)
         IN  MoistureSpread(r.corners, r.queue)

\* assignMoisture, lines 246-251: i / (n - 1) by rank, in thousandths.
RankMoisture_NoDivide(i, n) == 1000 * i

RankMoisture(i, n) == (1000 * i) \div (IF n - 1 = 0 THEN 1 ELSE n - 1)

assignMoisture(g) ==
    LET corners1 == MoistureSpread(MoistureSeed(g.corners), MoistureQueue(g.corners))
        landCorners == SortByKey(LandCornersOf(corners1),
                                 [c \in DOMAIN corners1 |-> corners1[c].moisture])
        corners2 == [c \in DOMAIN corners1 |->
                        IF corners1[c].ocean THEN corners1[c]
                        ELSE [corners1[c] EXCEPT !.moisture =
                                RankMoisture(PositionIn(landCorners, c) - 1,
                                             Len(landCorners))]]
        moisture == [c \in DOMAIN corners2 |-> corners2[c].moisture]
    IN  [g EXCEPT !.corners = corners2,
                  !.centers = [p \in DOMAIN g.centers |->
                                  [g.centers[p] EXCEPT !.moisture =
                                      CornerMean(g.centers[p].corners, moisture)]]]

Above_Inclusive(x, cutoff) == x >= cutoff

\* getBiome: the test of a value against a cutoff, x > cutoff.
Above(x, cutoff) == x > cutoff

\* getBiome, elevation and moisture in thousandths.
getBiome(center) ==
    LET e == center.elevation
        m == center.moisture
    IN  IF center.ocean THEN "OCEAN"
        ELSE IF center.water THEN (IF e < 100 THEN "MARSH" ELSE "LAKE")
        ELSE IF center.coast THEN "BEACH"
        ELSE IF Above(e, 800) THEN
            (IF Above(m, 500) THEN "SNOW"
             ELSE IF Above(m, 330) THEN "TUNDRA"
             ELSE IF Above(m, 160) THEN "BARE"
             ELSE "SCORCHED")
        ELSE IF Above(e, 600) THEN
            (IF Above(m, 660) THEN "TAIGA"
             ELSE IF Above(m, 330) THEN "SHRUBLAND"
             ELSE "TEMPERATE_DESERT")
        ELSE IF Above(e, 300) THEN
            (IF Above(m, 830) THEN "TEMPERATE_RAIN_FOREST"
             ELSE IF Above(m, 500) THEN "TEMPERATE_DECIDUOUS_FOREST"
             ELSE IF Above(m, 160) THEN "GRASSLAND"
             ELSE "TEMPERATE_DESERT")
        ELSE IF Above(m, 660) THEN "TROPICAL_RAIN_FOREST"
        ELSE IF Above(m, 330) THEN "TROPICAL_SEASONAL_FOREST"
        ELSE IF Above(m, 160) THEN "GRASSLAND"
        ELSE "SUBTROPICAL_DESERT"

assignBiomes(g) ==
    [g EXCEPT !.centers =
        [p \in DOMAIN g.centers |-> [g.centers[p] EXCEPT !.biome = getBiome(g.centers[p])]]]

(***************************************************************************)
(* generateMap (generator.ts): the configuration is DEFAULT_CONFIG with    *)
(* the caller's overrides, and the stages run in order on the graph.  The  *)
(* island shape is simplex noise seeded from the configuration: any set of *)
(* Corners can be the ones it puts under water.                            *)
(***************************************************************************)
MapSizes == {<<800, 600>>, <<0, 600>>, <<800, 0>>}

MapConfigs ==
    {[DEFAULT_CONFIG EXCEPT !.numPoints = n, !.width = wh[1], !.height = wh[2],
                            !.lakeFactor = lf, !.riverCount = rc] :
        n \in {0, 1, 2, 7}, wh \in MapSizes, lf \in {30, 70}, rc \in 0..MaxRivers}

IslandShapes(g) == SUBSET (DOMAIN g.corners)

EmptyMap == [centers |-> <<>>, edges |-> <<>>, config |-> DEFAULT_CONFIG]

InitMap ==
    /\ mconfig \in MapConfigs
    /\ graph = EmptyGraph
    /\ islandShape = {}
    /\ mpc = "start"
    /\ mapData = EmptyMap
    /\ config = DEFAULT_TOWN_CONFIG
    /\ landCenters = <<>>
    /\ shorelineCenters = <<>>
    /\ riverCenters = <<>>
    /\ towns = <<>>
    /\ placedCenters = {}
    /\ stats = [total |-> 0, byType |-> [t \in TownTypes |-> 0],
                rulesFullfilled |-> TRUE]
    /\ tpc = "idle"
    /\ ruleIdx = 0
    /\ placed = 0
    /\ mstEdges = <<>>
    /\ extraEdges = <<>>
    /\ roads = <<>>
    /\ adjacency = <<>>
    /\ rpc = "idle"
    /\ edgePos = 0
    /\ paths = <<>>
    /\ npc = "idle"
    /\ edgeIdx = 0
    /\ NamesIdle

frameMap == UNCHANGED <<townVars, roadVars, noisyVars, nameVars, mconfig>>

BuildGraph ==
    /\ mpc = "start"
    /\ graph' = buildGraph(mconfig)
    /\ mpc' = "water"
    /\ UNCHANGED <<islandShape, mapData>>
    /\ frameMap

AssignWater ==
    /\ mpc = "water"
    /\ \E shape \in IslandShapes(graph) :
          /\ islandShape' = shape
          /\ graph' = assignWater(graph, mconfig, shape)
    /\ mpc' = "elevation"
    /\ UNCHANGED mapData
    /\ frameMap

AssignElevation ==
    /\ mpc = "elevation"
    /\ graph' = assignElevation(graph)
    /\ mpc' = "rivers"
    /\ UNCHANGED <<islandShape, mapData>>
    /\ frameMap

CreateRivers ==
    /\ mpc = "rivers"
    /\ \E starts \in RiverStarts(RiverCandidates(graph), mconfig.riverCount) :
          graph' = createRivers(graph, starts)
    /\ mpc' = "moisture"
    /\ UNCHANGED <<islandShape, mapData>>
    /\ frameMap

AssignMoisture ==
    /\ mpc = "moisture"
    /\ graph' = assignMoisture(graph)
    /\ mpc' = "biomes"
    /\ UNCHANGED <<islandShape, mapData>>
    /\ frameMap

AssignBiomes ==
    /\ mpc = "biomes"
    /\ graph' = assignBiomes(graph)
    /\ mpc' = "return"
    /\ UNCHANGED <<islandShape, mapData>>
    /\ frameMap

ReturnMap ==
    /\ mpc = "return"
    /\ mapData' = [centers |-> graph.centers, corners |-> graph.corners,
                   edges |-> graph.edges, config |-> mconfig]
    /\ mpc' = "done"
    /\ UNCHANGED <<graph, islandShape>>
    /\ frameMap

NextMap ==
    \/ BuildGraph
    \/ AssignWater
    \/ AssignElevation
    \/ CreateRivers
    \/ AssignMoisture
    \/ AssignBiomes
    \/ ReturnMap

SpecMap == InitMap /\ [][NextMap]_vars

\* generateMap on the deeper graph, without rivers.
DeepConfigs ==
    {[DEFAULT_CONFIG EXCEPT !.numPoints = 10, !.lakeFactor = lf, !.riverCount = 0] :
        lf \in {30, 70}}

InitDeepMap ==
    /\ mconfig \in DeepConfigs
    /\ graph = EmptyGraph
    /\ islandShape = {}
    /\ mpc = "start"
    /\ mapData = EmptyMap
    /\ config = DEFAULT_TOWN_CONFIG
    /\ landCenters = <<>>
    /\ shorelineCenters = <<>>
    /\ riverCenters = <<>>
    /\ towns = <<>>
    /\ placedCenters = {}
    /\ stats = [total |-> 0, byType |-> [t \in TownTypes |-> 0],
                rulesFullfilled |-> TRUE]
    /\ tpc = "idle"
    /\ ruleIdx = 0
    /\ placed = 0
    /\ mstEdges = <<>>
    /\ extraEdges = <<>>
    /\ roads = <<>>
    /\ adjacency = <<>>
    /\ rpc = "idle"
    /\ edgePos = 0
    /\ paths = <<>>
    /\ npc = "idle"
    /\ edgeIdx = 0
    /\ NamesIdle

SpecDeepMap == InitDeepMap /\ [][NextMap]_vars

\* assignBiomes on a graph of one Center, for every combination of its flags
\* and the elevations and moistures at, next to and between the cutoffs.
BiomeElevations == {0, 99, 100, 101, 299, 300, 301, 450, 599, 600, 601, 799, 800, 801, 1000}

BiomeMoistures ==
    {0, 159, 160, 161, 329, 330, 331, 499, 500, 501, 659, 660, 661, 829, 830, 831, 1000}

BiomeCenter(ocean, water, coast, e, m) ==
    [index |-> 1, point |-> <<400, 300>>,
     ocean |-> ocean, water |-> water, coast |-> coast, border |-> FALSE,
     elevation |-> e, moisture |-> m, biome |-> "OCEAN",
     neighbors |-> <<>>, borders |-> <<>>, corners |-> <<>>]

InitBiome ==
    /\ mconfig = [DEFAULT_CONFIG EXCEPT !.numPoints = 1]
    /\ \E ocean, water, coast \in BOOLEAN :
          \E e \in BiomeElevations, m \in BiomeMoistures :
              graph = [centers |-> <<BiomeCenter(ocean, water, coast, e, m)>>,
                       corners |-> <<>>, edges |-> <<>>]
    /\ islandShape = {}
    /\ mpc = "biomes"
    /\ mapData = EmptyMap
    /\ config = DEFAULT_TOWN_CONFIG
    /\ landCenters = <<>>
    /\ shorelineCenters = <<>>
    /\ riverCenters = <<>>
    /\ towns = <<>>
    /\ placedCenters = {}
    /\ stats = [total |-> 0, byType |-> [t \in TownTypes |-> 0],
                rulesFullfilled |-> TRUE]
    /\ tpc = "idle"
    /\ ruleIdx = 0
    /\ placed = 0
    /\ mstEdges = <<>>
    /\ extraEdges = <<>>
    /\ roads = <<>>
    /\ adjacency = <<>>
    /\ rpc = "idle"
    /\ edgePos = 0
    /\ paths = <<>>
    /\ npc = "idle"
    /\ edgeIdx = 0
    /\ NamesIdle

NextBiome ==
    \/ AssignBiomes
    \/ ReturnMap

SpecBiome == InitBiome /\ [][NextBiome]_vars


(***************************************************************************)
(* Properties of generateMap.                                              *)
(***************************************************************************)
InvalidMapConfig ==
    mconfig.numPoints < 3 \/ mconfig.width <= 0 \/ mconfig.height <= 0

\* C9: generateMap rejects a configuration with numPoints < 3 or a
\* non-positive width or height before it builds any graph structure: on such
\* a configuration no stage of the pipeline runs and no map is returned.
C9_Claim ==
    InvalidMapConfig => (mpc = "start" /\ graph = EmptyGraph /\ mapData = EmptyMap)

AfterAssignWater == mpc \in {"elevation", "rivers", "moisture", "biomes", "return", "done"}

BorderCornersOcean(corners) ==
    \A c \in DOMAIN corners :
        corners[c].border => (corners[c].ocean /\ corners[c].water)

\* C10: after assignWater and in every later state of the pipeline,
\* the returned map included, every Corner with border = true has
\* ocean = true and water = true, whatever the island shape made of it.
C10_BorderOcean ==
    AfterAssignWater =>
        /\ BorderCornersOcean(graph.corners)
        /\ mpc = "done" => BorderCornersOcean(mapData.corners)

\* A returned map with a border Corner the island shape left on land, next to
\* a Corner off the border that is land.
C10_Witness ==
    /\ mpc = "done"
    /\ \E c \in DOMAIN mapData.corners :
          /\ mapData.corners[c].border
          /\ c \notin islandShape
          /\ mapData.corners[c].ocean
          /\ mapData.corners[c].water
    /\ \E c \in DOMAIN mapData.corners :
          ~mapData.corners[c].border /\ ~mapData.corners[c].water


(***************************************************************************)
(* Properties of the terrain stages.                                       *)
(***************************************************************************)
AfterCreateRivers == mpc \in {"moisture", "biomes", "return", "done"}

\* C11: after createRivers every Edge with river > 0 has both v0 and v1
\* non-null and one of them is the downslope of the other; an Edge with a
\* null corner has river = 0.
C11_RiverEdges ==
    AfterCreateRivers =>
        \A e \in DOMAIN graph.edges :
            LET edge == graph.edges[e]
            IN  /\ edge.river > 0 =>
                      /\ edge.v0 # 0
                      /\ edge.v1 # 0
                      /\ \/ graph.corners[edge.v0].downslope = edge.v1
                         \/ graph.corners[edge.v1].downslope = edge.v0
                /\ (edge.v0 = 0 \/ edge.v1 = 0) => edge.river = 0

\* C11 witness: createRivers has traced a river over an Edge, on a graph that
\* has hull Edges with a null corner.
C11_Witness ==
    /\ AfterCreateRivers
    /\ \E e \in DOMAIN graph.edges : graph.edges[e].river > 0
    /\ \E e \in DOMAIN graph.edges : graph.edges[e].v1 = 0


\* The Corner the downslope references lead to from c: the first Corner on
\* the chain whose downslope is null.
RECURSIVE ChainEnd(_, _, _)
ChainEnd(corners, c, fuel) ==
    IF corners[c].downslope = 0 \/ fuel = 0 THEN c
    ELSE ChainEnd(corners, corners[c].downslope, fuel - 1)

RECURSIVE ChainCorners(_, _, _)
ChainCorners(corners, c, fuel) ==
    IF corners[c].downslope = 0 \/ fuel = 0 THEN {c}
    ELSE {c} \cup ChainCorners(corners, corners[c].downslope, fuel - 1)

\* The upper end of a river Edge: the end whose downslope is the other end.
UpperEnd(g, edge) ==
    IF g.corners[edge.v0].downslope = edge.v1 THEN edge.v0 ELSE edge.v1

LowerEnd(g, edge) ==
    IF g.corners[edge.v0].downslope = edge.v1 THEN edge.v1 ELSE edge.v0

\* C12 (as claimed): after createRivers, for every Edge with river > 0 the
\* downslope chain from its upper end passes through its lower end and ends
\* at an ocean Corner.
C12_Claim ==
    AfterCreateRivers =>
        \A e \in DOMAIN graph.edges :
            graph.edges[e].river > 0 =>
                LET upper == UpperEnd(graph, graph.edges[e])
                    lower == LowerEnd(graph, graph.edges[e])
                    n == Len(graph.corners)
                IN  /\ lower \in ChainCorners(graph.corners, upper, n)
                    /\ graph.corners[ChainEnd(graph.corners, upper, n)].ocean


AfterAssignElevation == mpc \in {"rivers", "moisture", "biomes", "return", "done"}

\* The Corners within d hops over `adjacent` of the Corners in seen.
RECURSIVE Within(_, _, _)
Within(corners, seen, d) ==
    IF d = 0 THEN seen
    ELSE Within(corners,
                seen \cup UNION {SeqToSet(corners[c].adjacent) : c \in seen},
                d - 1)

\* The ocean or coast Corners, from which assignElevation starts.
Frontier(corners) == {c \in DOMAIN corners : corners[c].ocean \/ corners[c].coast}

\* The hop distance of Corner c from the frontier: the least d with c within
\* d hops of it, and the number of Corners if there is none.
HopDistance(corners, c) ==
    LET n == Len(corners)
        ds == {d \in 0..n : c \in Within(corners, Frontier(corners), d)}
    IN  IF ds = {} THEN n ELSE CHOOSE d \in ds : \A d2 \in ds : d <= d2

\* C13 (as claimed): after assignElevation, of two non-ocean Corners the one
\* with the smaller hop distance from the ocean/coast frontier has an
\* elevation that is not larger.
C13_Claim ==
    AfterAssignElevation =>
        \A a, b \in DOMAIN graph.corners :
            (/\ ~graph.corners[a].ocean
             /\ ~graph.corners[b].ocean
             /\ HopDistance(graph.corners, a) < HopDistance(graph.corners, b))
                => graph.corners[a].elevation <= graph.corners[b].elevation


AfterAssignMoisture == mpc \in {"biomes", "return", "done"}

AfterAddExtraEdges == rpc \in {"paths", "done"} /\ Len(towns) >= 2

\* C15 (as claimed): the number of extra edges accepted by addExtraEdges is
\* at most 0.3 times the number of edges of the spanning tree.
C15_Claim ==
    AfterAddExtraEdges => 10 * Len(extraEdges) <= 3 * Len(mstEdges)

\* C15 (amended): the number of extra edges is at most the larger of 1 and
\* 0.3 times the number of edges of the spanning tree, rounded down, and no
\* extra edge joins a pair the spanning tree joins or is taken twice.
C15_Amended ==
    AfterAddExtraEdges =>
        /\ \/ Len(extraEdges) <= 1
           \/ 10 * Len(extraEdges) <= 3 * Len(mstEdges)
        /\ \A i \in DOMAIN extraEdges : \A j \in DOMAIN mstEdges :
              {extraEdges[i][1], extraEdges[i][2]} # {mstEdges[j][1], mstEdges[j][2]}
        /\ \A i, j \in DOMAIN extraEdges :
              i # j => {extraEdges[i][1], extraEdges[i][2]}
                          # {extraEdges[j][1], extraEdges[j][2]}

\* C15 witness: generateRoads has returned for four towns, with one extra
\* edge where 0.3 times the three tree edges is below 1, and two more pairs
\* that were not taken.
C15_Witness ==
    /\ rpc = "done"
    /\ Len(towns) = 4
    /\ Len(mstEdges) = 3
    /\ Len(extraEdges) = 1


(***************************************************************************)
(* Properties of getBiome.                                                 *)
(***************************************************************************)
AfterAssignBiomes == mpc \in {"return", "done"}

\* The biome table: for each elevation band, lowest first, the moisture
\* cutoffs of the band and its biomes from the driest up.
BiomeRows ==
    << [above |-> 0, cutoffs |-> <<160, 330, 660>>,
        biomes |-> <<"SUBTROPICAL_DESERT", "GRASSLAND",
                     "TROPICAL_SEASONAL_FOREST", "TROPICAL_RAIN_FOREST">>],
       [above |-> 300, cutoffs |-> <<160, 500, 830>>,
        biomes |-> <<"TEMPERATE_DESERT", "GRASSLAND",
                     "TEMPERATE_DECIDUOUS_FOREST", "TEMPERATE_RAIN_FOREST">>],
       [above |-> 600, cutoffs |-> <<330, 660>>,
        biomes |-> <<"TEMPERATE_DESERT", "SHRUBLAND", "TAIGA">>],
       [above |-> 800, cutoffs |-> <<160, 330, 500>>,
        biomes |-> <<"SCORCHED", "BARE", "TUNDRA", "SNOW">>] >>

\* The band of a value: one more than the number of cutoffs it is strictly
\* above, so that a value on a cutoff is in the lower band.
BandOf(x, cutoffs) == 1 + Cardinality({k \in DOMAIN cutoffs : x > cutoffs[k]})

TableBiome(e, m) ==
    LET row == BiomeRows[BandOf(e, <<300, 600, 800>>)]
    IN  row.biomes[BandOf(m, row.cutoffs)]

ExpectedBiome(center) ==
    IF center.ocean THEN "OCEAN"
    ELSE IF center.water /\ center.elevation < 100 THEN "MARSH"
    ELSE IF center.water THEN "LAKE"
    ELSE IF center.coast THEN "BEACH"
    ELSE TableBiome(center.elevation, center.moisture)

NUM_POINTS == 4

\* random.float(-amplitude, amplitude), in hundredths: the lowest value and
\* the middle one.
NoiseDraws(amp) == {-amp, 0}

Scaled(point) == <<100 * (NUM_POINTS + 1) * point[1], 100 * (NUM_POINTS + 1) * point[2]>>

\* noisyLine: the i-th intermediate point, lerp(v0, v1, i / (NUM_POINTS + 1))
\* displaced by draw times the vector from d0 to d1.
NoisyPoint(v0, v1, d0, d1, i, draw) ==
    <<Scaled(v0)[1] + 100 * i * (v1[1] - v0[1]) + (NUM_POINTS + 1) * (d1[1] - d0[1]) * draw,
      Scaled(v0)[2] + 100 * i * (v1[2] - v0[2]) + (NUM_POINTS + 1) * (d1[2] - d0[2]) * draw>>

noisyLine(v0, v1, d0, d1, draws) ==
    <<Scaled(v0)>>
    \o [i \in 1..NUM_POINTS |-> NoisyPoint(v0, v1, d0, d1, i, draws[i])]
    \o <<Scaled(v1)>>

\* buildNoisyEdges: the edges the loop skips.
NoisySkipped(edge) ==
    \/ edge.d0 = 0 \/ edge.d1 = 0 \/ edge.v0 = 0 \/ edge.v1 = 0
    \/ mapData.centers[edge.d0].water \/ mapData.centers[edge.d0].ocean
    \/ mapData.centers[edge.d1].water \/ mapData.centers[edge.d1].ocean

Amplitude(edge) ==
    IF mapData.centers[edge.d0].biome # mapData.centers[edge.d1].biome THEN 4 ELSE 2

frameNoisy == UNCHANGED <<mapData, townVars, roadVars, genVars, nameVars>>

\* buildNoisyEdges: new Random(seed + 77777), new Map().
NoisyBegin ==
    /\ npc = "start"
    /\ paths' = <<>>
    /\ edgeIdx' = 1
    /\ npc' = "loop"
    /\ frameNoisy

\* buildNoisyEdges: an iteration of the loop that ends in continue.
NoisySkip ==
    /\ npc = "loop"
    /\ edgeIdx <= Len(mapData.edges)
    /\ NoisySkipped(mapData.edges[edgeIdx])
    /\ edgeIdx' = edgeIdx + 1
    /\ UNCHANGED <<paths, npc>>
    /\ frameNoisy

\* buildNoisyEdges: an iteration of the loop that sets the path of the edge.
NoisySet ==
    /\ npc = "loop"
    /\ edgeIdx <= Len(mapData.edges)
    /\ ~NoisySkipped(mapData.edges[edgeIdx])
    /\ LET edge == mapData.edges[edgeIdx]
       IN  \E draws \in [1..NUM_POINTS -> NoiseDraws(Amplitude(edge))] :
              paths' = [k \in DOMAIN paths \cup {edge.index} |->
                          IF k = edge.index
                          THEN noisyLine(mapData.corners[edge.v0].point,
                                         mapData.corners[edge.v1].point,
                                         mapData.centers[edge.d0].point,
                                         mapData.centers[edge.d1].point, draws)
                          ELSE paths[k]]
    /\ edgeIdx' = edgeIdx + 1
    /\ UNCHANGED npc
    /\ frameNoisy

\* buildNoisyEdges: return { paths }.
NoisyReturn ==
    /\ npc = "loop"
    /\ edgeIdx > Len(mapData.edges)
    /\ npc' = "done"
    /\ UNCHANGED <<paths, edgeIdx>>
    /\ frameNoisy

NextNoisy ==
    \/ NoisyBegin
    \/ NoisySkip
    \/ NoisySet
    \/ NoisyReturn

(***************************************************************************)
(* The stages that run on a finished map: buildNoisyEdges, and the         *)
(* TownGenerator followed by generateRoads on the towns it placed.         *)
(***************************************************************************)
StageMapConfigs ==
    {[DEFAULT_CONFIG EXCEPT !.numPoints = 10, !.lakeFactor = lf, !.riverCount = n] :
        lf \in {30, 70}, n \in {0, 1}}

\* generateMap on cfg, with the island shape and the river sources drawn.
FinishedMaps(cfg, shape) ==
    LET elevated == assignElevation(assignWater(buildGraph(cfg), cfg, shape))
    IN  { LET g == assignBiomes(assignMoisture(createRivers(elevated, starts)))
          IN  [centers |-> g.centers, corners |-> g.corners, edges |-> g.edges,
               config |-> cfg] :
            starts \in RiverStarts(RiverCandidates(elevated), cfg.riverCount) }


StageShapes == {{5, 6, 7, 8, 9}, {3, 5, 6, 8, 9}, {7, 8, 9}}

StageMaps ==
    UNION {FinishedMaps(cfg, shape) : cfg \in StageMapConfigs, shape \in StageShapes}

StageRuleSets ==
    { DEFAULT_TOWN_CONFIG.rules,
      << Rule("shoreline", 50, 1, 1, 0, 1000, 10),
         Rule("inland", 25, 1, 0, 0, 1000, 4) >>,
      << Rule("river", 50, 2, 0, 0, 1000, 10),
         Rule("elevation", 25, 0, 0, 300, 1000, 4) >> }

StageTownConfigs ==
    { [totalTowns |-> n, minDistance |-> 40, rules |-> rs] :
        n \in 1..MaxStageTowns, rs \in StageRuleSets }

NoisyEdgesOf(md) ==
    Cardinality({e \in DOMAIN md.edges :
        LET edge == md.edges[e]
        IN  /\ edge.d0 # 0 /\ edge.d1 # 0 /\ edge.v0 # 0 /\ edge.v1 # 0
            /\ ~md.centers[edge.d0].water /\ ~md.centers[edge.d0].ocean
            /\ ~md.centers[edge.d1].water /\ ~md.centers[edge.d1].ocean})

\* The caller holds a finished map and is about to call buildNoisyEdges on
\* it, or to construct a TownGenerator on it.
InitStages ==
    /\ mapData \in StageMaps
    /\ \/ /\ npc = "start"
          /\ tpc = "idle"
          /\ NoisyEdgesOf(mapData) <= MaxNoisyEdges
          /\ config = DEFAULT_TOWN_CONFIG
       \/ /\ npc = "idle"
          /\ tpc = "new"
          /\ config \in StageTownConfigs
    /\ landCenters = <<>>
    /\ shorelineCenters = <<>>
    /\ riverCenters = <<>>
    /\ towns = <<>>
    /\ placedCenters = {}
    /\ stats = [total |-> 0, byType |-> [t \in TownTypes |-> 0],
                rulesFullfilled |-> TRUE]
    /\ ruleIdx = 0
    /\ placed = 0
    /\ mstEdges = <<>>
    /\ extraEdges = <<>>
    /\ roads = <<>>
    /\ adjacency = <<>>
    /\ rpc = "idle"
    /\ edgePos = 0
    /\ paths = <<>>
    /\ edgeIdx = 0
    /\ NamesIdle
    /\ mconfig = mapData.config
    /\ graph = [centers |-> mapData.centers, corners |-> mapData.corners,
                edges |-> mapData.edges]
    /\ islandShape = {}
    /\ mpc = "done"

\* new TownGenerator(mapData, config): cacheValidLocations; then generate()
\* up to its first pass.
NewTownGenerator ==
    /\ tpc = "new"
    /\ landCenters' = LandCentersOf(mapData)
    /\ shorelineCenters' = ShorelineCentersOf(mapData)
    /\ riverCenters' = RiverCentersOf(mapData)
    /\ tpc' = "pass1"
    /\ ruleIdx' = 1
    /\ placed' = 0
    /\ UNCHANGED <<towns, placedCenters, stats>>
    /\ frameTowns

\* generateRoads(mapData, towns) is called on the towns generate() returned.
CallGenerateRoads ==
    /\ tpc = "done"
    /\ rpc = "idle"
    /\ rpc' = "start"
    /\ UNCHANGED <<mstEdges, extraEdges, roads, adjacency, edgePos>>
    /\ frameRoads

NextStages ==
    \/ NextNoisy
    \/ NewTownGenerator
    \/ NextTowns
    \/ CallGenerateRoads
    \/ NextRoads

SpecStages == InitStages /\ [][NextStages]_vars

\* C17: buildNoisyEdges, the construction of a TownGenerator and generate(),
\* and generateRoads leave the map as it was, every field and every list
\* order of every Region, Corner and Edge, and once the TownGenerator is
\* constructed its cached candidate arrays keep their contents and order.
C17_Frame ==
    [][/\ mapData' = mapData
       /\ tpc # "new" => /\ landCenters' = landCenters
                         /\ shorelineCenters' = shorelineCenters
                         /\ riverCenters' = riverCenters]_vars

\* C17 witness: on a map with Corners, a TownGenerator was constructed,
\* generate() placed a town picked by a shuffle of the valid shoreline
\* candidates, and generateRoads built a road between the towns.
C17_Witness ==
    /\ mapData.corners # <<>>
    /\ tpc = "done"
    /\ Len(shorelineCenters) >= 2
    /\ \E i \in DOMAIN towns : towns[i].type = "shoreline"
    /\ rpc = "done"
    /\ Len(roads) >= 1


(***************************************************************************)
(* generateRoads on two settlements.                                       *)
(***************************************************************************)
AfterGenerateRoads == rpc = "done"

\* The sum of the lengths of the segments of a path, in hundredths.
RECURSIVE SegmentSum(_, _)
SegmentSum(path, i) ==
    IF i >= Len(path) THEN 0
    ELSE euclidean(CenterPoint(path[i]), CenterPoint(path[i + 1]))
         + SegmentSum(path, i + 1)

\* C18: for exactly two settlements, on distinct Regions, generateRoads
\* returns exactly one Road, that of the single tree edge, with no extra
\* edge, and the Road's length is the sum of the lengths of the segments of
\* its path and is at least the straight-line distance between the two
\* settlements' Centers: as euclidean computes both, and, for a path of
\* several segments, whose lengths are whole on these maps, by squares too.
C18_TwoSettlements ==
    (AfterGenerateRoads /\ Len(towns) = 2 /\ towns[1].center # towns[2].center) =>
        /\ Len(mstEdges) = 1
        /\ extraEdges = <<>>
        /\ Len(roads) = 1
        /\ {roads[1].from, roads[1].to} = {towns[1].id, towns[2].id}
        /\ roads[1].length = SegmentSum(roads[1].path, 1)
        /\ roads[1].length >=
              euclidean(CenterPoint(towns[1].center), CenterPoint(towns[2].center))
        /\ Len(roads[1].path) > 2 =>
              roads[1].length * roads[1].length >=
                 10000 * DistSq(CenterPoint(towns[1].center),
                                CenterPoint(towns[2].center))

\* C18 witness: generateRoads has returned for two settlements whose road
\* bends, its path having more than two points and being longer than the
\* straight line.
C18_Witness ==
    /\ AfterGenerateRoads
    /\ Len(towns) = 2
    /\ Len(roads) = 1
    /\ Len(roads[1].path) > 2
    /\ roads[1].length * roads[1].length >
          10000 * DistSq(CenterPoint(towns[1].center), CenterPoint(towns[2].center))


(***************************************************************************)
(* Ocean and lakes.                                                        *)
(***************************************************************************)
\* The Corners that a path of water Corners in the adjacent relation joins
\* to one of the Corners of reached.
RECURSIVE WaterReach(_)
WaterReach(reached) ==
    LET more == {c \in DOMAIN graph.corners :
                    /\ c \notin reached
                    /\ graph.corners[c].water
                    /\ \E r \in reached : c \in SeqToSet(graph.corners[r].adjacent)}
    IN  IF more = {} THEN reached ELSE WaterReach(reached \cup more)

BorderCorners == {c \in DOMAIN graph.corners : graph.corners[c].border}

\* C19: after assignWater a Corner is ocean exactly when it is a border
\* Corner or a water Corner that a path of water Corners joins to a border
\* Corner; the other water Corners are not ocean (lakes).
C19_OceanFlood ==
    AfterAssignWater =>
        \A c \in DOMAIN graph.corners :
            graph.corners[c].ocean <=> c \in WaterReach(BorderCorners)

\* C19 witness: assignWater has left a lake Corner and, off the border, an
\* ocean Corner that is not adjacent to any border Corner.
C19_Witness ==
    /\ AfterAssignWater
    /\ \E c \in DOMAIN graph.corners :
          graph.corners[c].water /\ ~graph.corners[c].ocean
    /\ \E c \in DOMAIN graph.corners :
          /\ graph.corners[c].ocean
          /\ ~graph.corners[c].border
          /\ \A a \in SeqToSet(graph.corners[c].adjacent) : ~graph.corners[a].border


(***************************************************************************)
(* Downslopes.                                                             *)
(***************************************************************************)
\* The number of downslope references followed from c before a Corner with
\* a null downslope, counted up to fuel.
RECURSIVE ChainHops(_, _, _)
ChainHops(corners, c, fuel) ==
    IF corners[c].downslope = 0 \/ fuel = 0 THEN 0
    ELSE 1 + ChainHops(corners, corners[c].downslope, fuel - 1)

\* C20: after createRivers the downslope of every Corner is null, and then
\* no adjacent Corner is lower, or is an adjacent Corner of strictly lower
\* elevation than the Corner and of the lowest elevation among its adjacent
\* Corners; so no downslope chain comes back to a Corner it has left, and
\* each one, the trace of a river included, ends at a Corner with a null
\* downslope in fewer hops than there are Corners.
C20_Downslope ==
    AfterCreateRivers =>
        \A c \in DOMAIN graph.corners :
            LET corner == graph.corners[c]
                down == corner.downslope
                n == Len(graph.corners)
            IN  /\ down = 0 =>
                      \A a \in SeqToSet(corner.adjacent) :
                          graph.corners[a].elevation >= corner.elevation
                /\ down # 0 =>
                      /\ down \in SeqToSet(corner.adjacent)
                      /\ graph.corners[down].elevation < corner.elevation
                      /\ \A a \in SeqToSet(corner.adjacent) :
                            graph.corners[down].elevation <= graph.corners[a].elevation
                /\ down = 0 \/ c \notin ChainCorners(graph.corners, down, n)
                /\ ChainHops(graph.corners, c, n) < n
                /\ graph.corners[ChainEnd(graph.corners, c, n)].downslope = 0

\* C20 witness: createRivers has traced a river from a Corner whose
\* downslope chain is two hops long, on a graph where some Corner has an
\* adjacent Corner of its own elevation.
C20_Witness ==
    /\ AfterCreateRivers
    /\ \E c \in DOMAIN graph.corners :
          /\ graph.corners[c].river > 0
          /\ ChainHops(graph.corners, c, Len(graph.corners)) >= 2
    /\ \E c \in DOMAIN graph.corners :
          \E a \in SeqToSet(graph.corners[c].adjacent) :
              graph.corners[a].elevation = graph.corners[c].elevation


(***************************************************************************)
(* River traces.  The downslope course of a Corner and, from the sources   *)
(* in the order they were drawn, the Corners each trace visits.            *)
(***************************************************************************)
\* The non-ocean Corners on the downslope chain from c, in order.
RECURSIVE Course(_, _, _)
Course(corners, c, fuel) ==
    IF c = 0 \/ fuel = 0 THEN <<>>
    ELSE IF corners[c].ocean THEN <<>>
    ELSE <<c>> \o Course(corners, corners[c].downslope, fuel - 1)

\* The position in course of the first Corner of flowing, 0 if there is none.
MergeAt(course, flowing) ==
    LET at == {i \in DOMAIN course : course[i] \in flowing}
    IN  IF at = {} THEN 0 ELSE CHOOSE i \in at : \A j \in at : i <= j

\* What the k-th trace visits: its course up to and with the merge point.
RECURSIVE Visits(_, _, _)
Visits(corners, starts, k) ==
    IF k = 0 THEN <<>>
    ELSE LET earlier == Visits(corners, starts, k - 1)
             flowing == UNION {SeqToSet(earlier[j]) : j \in DOMAIN earlier}
             course == Course(corners, starts[k], Len(corners))
             merge == MergeAt(course, flowing)
         IN  Append(earlier,
                    IF merge = 0 THEN course ELSE SubSeq(course, 1, merge))

\* The k-th trace merged: its last Corner was visited by an earlier trace.
Merged(visits, k) ==
    /\ visits[k] # <<>>
    /\ \E j \in 1..(k - 1) : visits[k][Len(visits[k])] \in SeqToSet(visits[j])

\* Edge joins Corner c to its downslope.
DownEdge(corners, edge, c) ==
    /\ corners[c].downslope # 0
    /\ \/ edge.v0 = c /\ edge.v1 = corners[c].downslope
       \/ edge.v1 = c /\ edge.v0 = corners[c].downslope

\* The traces that count Corner c, and those that count an Edge: a trace
\* counts the Edge below each Corner it visits but the merge point.
CornerTraces(visits, c) == {k \in DOMAIN visits : c \in SeqToSet(visits[k])}

EdgeTraces(corners, visits, edge) ==
    {k \in DOMAIN visits :
        \E i \in DOMAIN visits[k] :
            /\ DownEdge(corners, edge, visits[k][i])
            /\ ~(i = Len(visits[k]) /\ Merged(visits, k))}

\* The river counters of g are those the traces from starts leave.
CountersFrom(g, starts) ==
    LET visits == Visits(g.corners, starts, Len(starts))
    IN  /\ \A c \in DOMAIN g.corners :
              g.corners[c].river = Cardinality(CornerTraces(visits, c))
        /\ \A e \in DOMAIN g.edges :
              g.edges[e].river = Cardinality(EdgeTraces(g.corners, visits, g.edges[e]))

CourseRivers(corners, starts, edge) ==
    {k \in DOMAIN starts :
        \E c \in SeqToSet(Course(corners, starts[k], Len(corners))) :
            DownEdge(corners, edge, c)}

\* C22 (as claimed): createRivers leaves on every Edge the number of traced
\* rivers on whose downslope course the Edge lies, for the sources drawn, so
\* that an Edge two rivers share ends with river = 2.
C22_Claim ==
    [][mpc = "rivers" =>
          \E starts \in RiverStarts(RiverCandidates(graph), mconfig.riverCount) :
              /\ \A k \in DOMAIN starts : graph'.corners[starts[k]].river > 0
              /\ \A e \in DOMAIN graph'.edges :
                    graph'.edges[e].river =
                       Cardinality(CourseRivers(graph'.corners, starts, graph'.edges[e]))]_vars


(***************************************************************************)
(* Moisture.                                                               *)
(***************************************************************************)
BeforeAssignMoisture == mpc = "moisture"

\* The seed of a Corner as described: 1 on water, min(3, river * 0.2) on a
\* Corner off the water with a river, 0 elsewhere (in thousandths).
SeedAsDescribed(corner) ==
    IF corner.water THEN 1000
    ELSE IF corner.river > 0
         THEN (IF 200 * corner.river < 3000 THEN 200 * corner.river ELSE 3000)
         ELSE 0

\* C23 (as claimed): the seeding step of assignMoisture gives every water
\* Corner, ocean or lake, the moisture 1, every Corner off the water with
\* river > 0 the moisture min(3, river * 0.2), and every other Corner 0.
C23_Claim ==
    BeforeAssignMoisture =>
        \A c \in DOMAIN graph.corners :
            MoistureSeed(graph.corners)[c].moisture = SeedAsDescribed(graph.corners[c])


\* The moisture of the Corners when the propagation loop of assignMoisture
\* ends, before the normalisation; the seeding reads only water and river,
\* which assignMoisture leaves as they are.
SpreadMoisture ==
    MoistureSpread(MoistureSeed(graph.corners), MoistureQueue(graph.corners))

\* A moisture after d hops, each hop a factor 0.9.
RECURSIVE Decayed(_, _)
Decayed(moisture, d) ==
    IF d = 0 THEN moisture ELSE Decayed((moisture * 9) \div 10, d - 1)

\* The Corners at exactly d hops from Corner s, for d = 0 .. n.
RECURSIVE Rings(_, _, _)
Rings(seen, last, d) ==
    IF d = 0 THEN <<>>
    ELSE LET next == UNION {SeqToSet(graph.corners[c].adjacent) : c \in last} \ seen
         IN  <<next>> \o Rings(seen \cup next, next, d - 1)

\* rings[s][d] being the Corners at d - 1 hops from s: the largest decayed
\* seed that reaches Corner c.
BestDecayedSeed(seeded, rings, c) ==
    LET reaching == {Decayed(seeded[p[1]].moisture, p[2] - 1) :
                        p \in {q \in (DOMAIN seeded) \X (1..(Len(seeded) + 1)) :
                                  c \in rings[q[1]][q[2]]}}
    IN  CHOOSE v \in reaching : \A w \in reaching : w <= v

\* C24: the propagation loop of assignMoisture ends, and when it does the
\* moisture of each Corner is the largest, over the seeded Corners s, of the
\* seed of s decayed by 0.9 for each hop of the distance from s in
\* `adjacent`; no Corner has an adjacent Corner whose moisture times 0.9
\* exceeds its own.
C24_Spread ==
    (BeforeAssignMoisture \/ AfterAssignMoisture) =>
        \A spread \in {SpreadMoisture} :
        \A seeded \in {MoistureSeed(graph.corners)} :
        \A rings \in {[s \in DOMAIN graph.corners |->
                          <<{s}>> \o Rings({s}, {s}, Len(graph.corners))]} :
            \A c \in DOMAIN graph.corners :
                /\ spread[c].moisture = BestDecayedSeed(seeded, rings, c)
                /\ \A a \in SeqToSet(graph.corners[c].adjacent) :
                      Decayed(spread[a].moisture, 1) <= spread[c].moisture

\* C24 witness: assignMoisture has run on a graph where a Corner two hops
\* from the water is next to a river Corner whose seed is the lesser source:
\* its moisture comes from the water, not from the nearest seeded Corner.
C24_Witness ==
    /\ AfterAssignMoisture
    /\ \E spread \in {SpreadMoisture}, seeded \in {MoistureSeed(graph.corners)} :
           \E c \in DOMAIN graph.corners :
              /\ ~graph.corners[c].water
              /\ graph.corners[c].river = 0
              /\ \E a \in SeqToSet(graph.corners[c].adjacent) :
                    /\ graph.corners[a].river > 0
                    /\ ~graph.corners[a].water
                    /\ seeded[a].moisture < spread[a].moisture
              /\ \A a \in SeqToSet(graph.corners[c].adjacent) : ~graph.corners[a].water
              /\ spread[c].moisture = Decayed(1000, 2)


(***************************************************************************)
(* The second pass of generate().                                          *)
(***************************************************************************)
\* An iteration of the second pass is about to select a rule.
Pass2Selecting == tpc = "pass2" /\ Len(towns) < config.totalTowns

TownsOf(i) == Cardinality({t \in DOMAIN towns : towns[t].rule = sortedRules[i]})

NotAtMax(i) == sortedRules[i].maxCount = 0 \/ TownsOf(i) < sortedRules[i].maxCount

\* floor(targetPercent * totalTowns) - currentCount, targetPercent in percent.
TargetDeficit(i) ==
    (sortedRules[i].targetPercent * config.totalTowns) \div 100 - TownsOf(i)

\* The rules with the largest deficit among those not at their max, and the
\* one of them that is first in priority order.
LargestDeficit ==
    {i \in DOMAIN sortedRules :
        /\ NotAtMax(i)
        /\ \A j \in DOMAIN sortedRules :
              NotAtMax(j) => TargetDeficit(j) <= TargetDeficit(i)}

FirstLargest == CHOOSE i \in LargestDeficit : \A j \in LargestDeficit : i <= j

\* C25 (as claimed): in every iteration of the second pass the rule tried
\* first is the rule with the largest deficit among the rules not at their
\* max, the higher priority winning a tie.
C25_Claim ==
    (Pass2Selecting /\ LargestDeficit # {}) =>
        selectRuleByTarget(towns, sortedRules) = {FirstLargest}

\* C25 (amended): in every iteration of the second pass, if the largest
\* deficit among the rules not at their max is positive, the rule tried
\* first is the rule with that deficit, the higher priority winning a tie;
\* if it is zero or negative, the rule tried first is any one of the rules
\* not at their max.
C25_Amended ==
    (Pass2Selecting /\ LargestDeficit # {}) =>
        selectRuleByTarget(towns, sortedRules) =
            IF TargetDeficit(FirstLargest) > 0
            THEN {FirstLargest}
            ELSE {i \in DOMAIN sortedRules : NotAtMax(i)}

\* C25 witness: the second pass has placed a town of the rule that had the
\* largest deficit, a positive one, another rule not at its max having had a
\* smaller one.
C25_Witness ==
    /\ tpc \in {"pass2", "done"}
    /\ towns # <<>>
    /\ \E i, j \in DOMAIN sortedRules :
          /\ i # j
          /\ towns[Len(towns)].rule = sortedRules[i]
          /\ TownsOf(i) > sortedRules[i].minCount
          /\ TargetDeficit(i) + 1 > 0
          /\ NotAtMax(j)
          /\ TargetDeficit(j) < TargetDeficit(i) + 1
          /\ \A k \in DOMAIN sortedRules :
                (k # i /\ NotAtMax(k)) => TargetDeficit(k) <= TargetDeficit(i) + 1


\* The Regions a route from start to end may pass: not ocean, and not water
\* unless the Region is start or end itself.
Passable(start, end) ==
    {c \in DOMAIN mapData.centers :
        /\ ~mapData.centers[c].ocean
        /\ ~mapData.centers[c].water \/ c \in {start, end}}

\* The Regions joined to those of seen by neighbor links over allowed ones.
RECURSIVE Routes(_, _, _)
Routes(seen, allowed, fuel) ==
    LET more == {n \in allowed :
                    \E c \in seen : n \in SeqToSet(mapData.centers[c].neighbors)}
    IN  IF fuel = 0 \/ more \subseteq seen THEN seen
        ELSE Routes(seen \cup more, allowed, fuel - 1)

Reachable(start, end) ==
    end \in Routes({start}, Passable(start, end), Len(mapData.centers))

Neighboring(a, b) == b \in SeqToSet(mapData.centers[a].neighbors)

\* C26: every recorded road's path begins at the center of the first town's
\* Region and ends at the center of the second town's Region; when the
\* second can be reached from the first, consecutive points of the path are
\* centers of neighboring Regions and no Region strictly between the
\* endpoints is ocean or water.
C26_PathShape ==
    \A k \in DOMAIN roads :
        LET path == roads[k].path
            townA == towns[roads[k].from + 1]
            townB == towns[roads[k].to + 1]
            start == townA.center
            end == townB.center
        IN  /\ path[1] = start
            /\ path[Len(path)] = end
            /\ CenterPoint(path[1]) = <<townA.x, townA.y>>
            /\ CenterPoint(path[Len(path)]) = <<townB.x, townB.y>>
            /\ Reachable(start, end) =>
                  /\ \A i \in 1..(Len(path) - 1) : Neighboring(path[i], path[i + 1])
                  /\ \A i \in 2..(Len(path) - 1) :
                        /\ ~mapData.centers[path[i]].ocean
                        /\ ~mapData.centers[path[i]].water

\* C26 witness: a recorded road goes round a Region of water or ocean that
\* neighbors both of two consecutive Regions of its path.
C26_Witness ==
    \E k \in DOMAIN roads :
        /\ Len(roads[k].path) >= 4
        /\ \E i \in 2..(Len(roads[k].path) - 1), w \in DOMAIN mapData.centers :
              /\ mapData.centers[w].water \/ mapData.centers[w].ocean
              /\ Neighboring(roads[k].path[i - 1], w)
              /\ Neighboring(w, roads[k].path[i + 1])


\* C27: a recorded road is the two-point straight line between Regions that
\* are not neighbors only when the second town's Region cannot be reached
\* from the first's through neighbor links over passable Regions; when it
\* can, the path is a walk over such links from the one to the other; and
\* every edge of the network handled so far has its road in roads and its
\* two towns in each other's adjacency list, whichever path it got.
C27_Fallback ==
    (rpc \in {"paths", "done"} /\ Len(towns) >= 2) =>
        /\ Len(roads) = edgePos - 1
        /\ \A k \in DOMAIN roads :
              LET path == roads[k].path
                  townA == towns[allEdges[k][1]]
                  townB == towns[allEdges[k][2]]
              IN  /\ roads[k].from = townA.id
                  /\ roads[k].to = townB.id
                  /\ townB.id \in SeqToSet(adjacency[townA.id])
                  /\ townA.id \in SeqToSet(adjacency[townB.id])
                  /\ IsFallbackPath(path) => ~Reachable(townA.center, townB.center)
                  /\ Reachable(townA.center, townB.center) =>
                        /\ path[1] = townA.center
                        /\ path[Len(path)] = townB.center
                        /\ SeqToSet(path) \subseteq
                              Passable(townA.center, townB.center)
                        /\ \A i \in 1..(Len(path) - 1) :
                              Neighboring(path[i], path[i + 1])

\* C27 witness: generateRoads has returned with a road that is the straight
\* line between two towns with no route between them and a road found by the
\* search through a third Region, both recorded in adjacency.
C27_Witness ==
    /\ rpc = "done"
    /\ \E k, m \in DOMAIN roads :
          /\ IsFallbackPath(roads[k].path)
          /\ ~Reachable(roads[k].path[1], roads[k].path[2])
          /\ roads[k].to \in SeqToSet(adjacency[roads[k].from])
          /\ Len(roads[m].path) >= 3
          /\ roads[m].to \in SeqToSet(adjacency[roads[m].from])


(***************************************************************************)
(* TownNameGenerator (townNames.ts).  Each pool is cut to its first entry; *)
(* pick returns any entry of the pool it is given.                         *)
(***************************************************************************)
MaxNames == 3

maxAttempts == 20

PREFIXES == <<"Al">>

SUFFIXES == <<"bury">>

SHORE_PREFIXES == <<"Anchor">>

SHORE_SUFFIXES == <<"anchor">>

RIVER_PREFIXES == <<"Beck">>

RIVER_SUFFIXES == <<"bank">>

MOUNTAIN_PREFIXES == <<"Aerie">>

MOUNTAIN_SUFFIXES == <<"aerie">>

INLAND_PREFIXES == <<"Amber">>

INLAND_SUFFIXES == <<"acre">>

THE_PLACES == <<"Anchorage">>

POSSESSIVE_NAMES == <<"Baker's">>

DESCRIPTIVES == <<"Ancient">>

\* arr[this.random.int(0, arr.length - 1)]
pick(arr) == SeqToSet(arr)

\* place.charAt(0).toUpperCase() + place.slice(1)
Capitalized(word) ==
    CASE word = "anchor" -> "Anchor"
      [] word = "bank" -> "Bank"
      [] word = "aerie" -> "Aerie"
      [] word = "acre" -> "Acre"
      [] OTHER -> word

\* toLowerCase()
toLowerCase(word) ==
    CASE word = "Anchor" -> "anchor"
      [] word = "Beck" -> "beck"
      [] word = "Aerie" -> "aerie"
      [] word = "Amber" -> "amber"
      [] OTHER -> word

getFeaturePools(type) ==
    CASE type = "shoreline" -> [prefixes |-> SHORE_PREFIXES, suffixes |-> SHORE_SUFFIXES]
      [] type = "river" -> [prefixes |-> RIVER_PREFIXES, suffixes |-> RIVER_SUFFIXES]
      [] type = "elevation" -> [prefixes |-> MOUNTAIN_PREFIXES,
                                suffixes |-> MOUNTAIN_SUFFIXES]
      [] OTHER -> [prefixes |-> INLAND_PREFIXES, suffixes |-> INLAND_SUFFIXES]

createGenericName == {p \o s : p \in pick(PREFIXES), s \in pick(SUFFIXES)}

patternPrefixSuffix(town) ==
    LET pools == getFeaturePools(town.type)
    IN  {p \o s : p \in pick(pools.prefixes) \cup pick(PREFIXES),
                  s \in pick(pools.suffixes) \cup pick(SUFFIXES)}

patternFeatureGeneric(town) ==
    {p \o " " \o g : p \in pick(getFeaturePools(town.type).prefixes),
                     g \in pick(<<"Town">>)}

patternThePlace(town) ==
    LET suffixes == getFeaturePools(town.type).suffixes
    IN  (IF Len(suffixes) > 0
         THEN {"The " \o Capitalized(p) : p \in pick(suffixes)} ELSE {})
        \cup {"The " \o p : p \in pick(THE_PLACES)}

patternPossessive(town) ==
    LET suffixes == getFeaturePools(town.type).suffixes
    IN  {p \o " " \o place :
            p \in pick(POSSESSIVE_NAMES),
            place \in (IF Len(suffixes) > 0
                       THEN {Capitalized(s) : s \in pick(suffixes)} ELSE {})
                      \cup pick(<<"Rest">>)}

patternDescriptive(town) ==
    LET pools == getFeaturePools(town.type)
    IN  {a \o " " \o noun :
            a \in pick(DESCRIPTIVES),
            noun \in pick(pools.prefixes)
                     \cup {Capitalized(s) : s \in pick(pools.suffixes)}}

patternCompound(town) ==
    {p \o toLowerCase(m) \o " " \o s :
        p \in pick(PREFIXES),
        m \in pick(getFeaturePools(town.type).prefixes),
        s \in pick(<<"Bay">>)}

\* selectPattern() and the switch on it: any of the six patterns.
createFeatureBasedName(town) ==
    patternPrefixSuffix(town) \cup patternFeatureGeneric(town)
    \cup patternThePlace(town) \cup patternPossessive(town)
    \cup patternDescriptive(town) \cup patternCompound(town)

\* createName: every name it can return for town.
createName(town) == createFeatureBasedName(town) \cup createGenericName

Suffixed(base, num) == base \o " " \o ToString(num)

\* The suffix loop leaving num as it is given.
SuffixNum_Fixed(base, num) == num

\* generateName: while (this.usedNames.has(`${name} ${num}`)) num++
RECURSIVE SuffixNum(_, _)
SuffixNum(base, num) ==
    IF Suffixed(base, num) \in usedNames THEN SuffixNum(base, num + 1) ELSE num

NameTypes == {[i \in 1..n |-> "inland"] : n \in 0..MaxNames}
             \cup {[i \in 1..MaxNames |-> IF i % 2 = 1 THEN "shoreline" ELSE "inland"]}

\* generateTownNames(towns, seed) for up to MaxNames towns: a new
\* TownNameGenerator.
InitNames ==
    /\ mapData = GridMap(KindsC, 30, {<<4, 8>>})
    /\ config = DEFAULT_TOWN_CONFIG
    /\ landCenters = LandCentersOf(mapData)
    /\ shorelineCenters = ShorelineCentersOf(mapData)
    /\ riverCenters = RiverCentersOf(mapData)
    /\ \E types \in NameTypes :
          /\ towns = [i \in DOMAIN types |->
                        createTown(i - 1, landCenters[i],
                                   IF types[i] = "shoreline"
                                   THEN DEFAULT_TOWN_CONFIG.rules[1]
                                   ELSE DEFAULT_TOWN_CONFIG.rules[5])]
          /\ placedCenters = {landCenters[i] : i \in DOMAIN types}
          /\ stats = [total |-> Len(types),
                      byType |-> [t \in TownTypes |->
                                    Cardinality({i \in DOMAIN types : types[i] = t})],
                      rulesFullfilled |-> TRUE]
    /\ tpc = "done"
    /\ ruleIdx = Len(sortedRules) + 1
    /\ placed = 0
    /\ mstEdges = <<>>
    /\ extraEdges = <<>>
    /\ roads = <<>>
    /\ adjacency = <<>>
    /\ rpc = "idle"
    /\ edgePos = 0
    /\ paths = <<>>
    /\ npc = "idle"
    /\ edgeIdx = 0
    /\ mconfig = DEFAULT_CONFIG
    /\ graph = [centers |-> mapData.centers, corners |-> <<>>, edges |-> mapData.edges]
    /\ islandShape = {}
    /\ mpc = "done"
    /\ usedNames = {}
    /\ names = <<>>
    /\ name = ""
    /\ attempts = 0
    /\ gpc = "loop"

frameNames == UNCHANGED <<mapData, townVars, roadVars, genVars, noisyVars>>

\* generateTownNames: the next town of the loop; generateName: attempts = 0.
NameCall ==
    /\ gpc = "loop"
    /\ Len(names) < Len(towns)
    /\ attempts' = 0
    /\ gpc' = "try"
    /\ UNCHANGED <<usedNames, names, name>>
    /\ frameNames

\* generateName: one iteration of the do ... while loop.
NameTry ==
    /\ gpc = "try"
    /\ \E created \in createName(towns[Len(names) + 1]) :
          /\ name' = created
          /\ attempts' = attempts + 1
          /\ gpc' = IF created \in usedNames /\ attempts + 1 < maxAttempts
                    THEN "try" ELSE "finish"
    /\ UNCHANGED <<usedNames, names>>
    /\ frameNames

\* generateName: the numbered name if name is used, usedNames.add(name) and
\* return name; generateTownNames: names.set(town.id, name).
NameFinish ==
    /\ gpc = "finish"
    /\ LET final == IF name \in usedNames
                    THEN Suffixed(name, SuffixNum(name, 2)) ELSE name
       IN  /\ name' = final
           /\ usedNames' = usedNames \cup {final}
           /\ names' = Append(names, final)
    /\ gpc' = "loop"
    /\ UNCHANGED attempts
    /\ frameNames

\* generateTownNames: return names.
NamesReturn ==
    /\ gpc = "loop"
    /\ Len(names) = Len(towns)
    /\ gpc' = "done"
    /\ UNCHANGED <<usedNames, names, name, attempts>>
    /\ frameNames

NextNames ==
    \/ NameCall
    \/ NameTry
    \/ NameFinish
    \/ NamesReturn

SpecNames == InitNames /\ [][NextNames]_vars

\* The least integer from 2 on whose suffix makes base a name not in used.
LeastFree(base, used) ==
    CHOOSE k \in 2..(Cardinality(used) + 2) :
        /\ Suffixed(base, k) \notin used
        /\ \A j \in 2..(k - 1) : Suffixed(base, j) \in used

\* C28: the names returned by one TownNameGenerator are pairwise different
\* and are exactly its usedNames; no call has made more than 20 candidate
\* names, and a call ends its attempts on a used candidate only at the 20th;
\* and the name a call returns is its last candidate if that is unused, and
\* otherwise the candidate with the least integer suffix from 2 on that makes
\* it unused.
C28_UniqueNames ==
    /\ [](/\ \A i, j \in DOMAIN names : i # j => names[i] # names[j]
          /\ usedNames = SeqToSet(names)
          /\ attempts <= maxAttempts
          /\ (gpc = "finish" /\ name \in usedNames) => attempts = maxAttempts)
    /\ [][gpc = "finish" =>
            names' = Append(names, IF name \in usedNames
                                   THEN Suffixed(name, LeastFree(name, usedNames))
                                   ELSE name)]_vars

\* C28 witness: a third call has made 20 names, the last of them used, and
\* has returned it with the suffix 3, the suffix 2 being used as well.
C28_Witness ==
    /\ Len(names) >= 3
    /\ attempts = maxAttempts
    /\ gpc = "loop"
    /\ \E i, j, k \in DOMAIN names :
          /\ names[j] = Suffixed(names[i], 2)
          /\ names[k] = Suffixed(names[i], 3)
          /\ name = names[k]


OffOcean(corners) == {c \in DOMAIN corners : ~corners[c].ocean}

\* e is sqrt(i / (n - 1)) in thousandths, rounded down.
IsRootOfRank(e, i, n) ==
    /\ e >= 0
    /\ e * e * (n - 1) <= 1000000 * i
    /\ 1000000 * i < (e + 1) * (e + 1) * (n - 1)

C30_Claim ==
    AfterAssignWater =>
        \A p \in DOMAIN graph.centers :
            /\ graph.centers[p].ocean => graph.centers[p].water
            /\ ~(graph.centers[p].ocean /\ graph.centers[p].coast)

====
